---- MODULE Spec2Model ----
(***************************************************************************)
(* PainChain connector sync engine: the Celery task poll_connection        *)
(* (backend/api/tasks.py) driving sync_github / fetch_with_session          *)
(* (backend/connectors/github/connector.py) against the change_events and  *)
(* connections tables (backend/shared/models.py).                          *)
(***************************************************************************)
EXTENDS Integers, Sequences, FiniteSets, TLC

VARIABLES
    connections,  \* connections table: id -> row (models.Connection)
    store,        \* change_events table: committed rows in insertion order
    upstream,     \* the provider's data: repo full name -> entities
    pc,           \* per worker: position inside poll_connection / sync_github
    task,         \* per worker: the connection_id argument of poll_connection
    local,        \* per worker: locals of fetch_with_session
    session,      \* per worker: rows added to the db session, not yet committed
    result,       \* per worker: value returned by poll_connection
    clock,        \* datetime.utcnow(), advanced by each poll_connection call
    changes,      \* number of changes made around the runs (upstream, settings)
    synced,       \* history: connection -> its last run was failure-free and
                  \*          nothing it reads changed since
    hist,         \* history per worker: what the current run did
    standalone    \* the standalone connector (main.py): its database and the
                  \* locals of fetch_and_store_changes

vars == <<connections, store, upstream, pc, task, local, session, result,
          clock, changes, synced, hist, standalone>>

----------------------------------------------------------------------------
(* Bounds of the model *)

MaxRuns == 2
MaxChanges == 1

(* Program constants *)

limit == 50
files_limit == 20
discovery_limit == 10
packages_limit == 10
versions_limit == 20

ConnIds == {1, 2}
MissingId == CHOOSE n \in 1..(Cardinality(ConnIds) + 1) : n \notin ConnIds
Workers == {1, 2}
RegisteredTypes == {"github"}
NULL == "NULL"  \* None, where a string is expected
None == -1      \* None, where a number is expected

----------------------------------------------------------------------------
(* Helpers *)

\* Python's  x or ""
OrEmpty(x) == IF x = NULL THEN "" ELSE x

Min(a, b) == IF a < b THEN a ELSE b

TakeAll(s, n) == s
Take(s, n) == SubSeq(s, 1, Min(n, Len(s)))

Range(s) == {s[i] : i \in 1..Len(s)}

Contains(s, x) == \E i \in 1..Len(s) : s[i] = x

RECURSIVE Count(_, _)
Count(s, x) ==
    IF s = <<>> THEN 0
    ELSE (IF Head(s) = x THEN 1 ELSE 0) + Count(Tail(s), x)

RECURSIVE SelectNames(_, _)
SelectNames(names, ok) ==
    IF names = <<>> THEN <<>>
    ELSE (IF Head(names) \in ok THEN <<Head(names)>> ELSE <<>>)
         \o SelectNames(Tail(names), ok)

----------------------------------------------------------------------------
(* The db session (shared.database.SessionLocal).  A query made through the *)
(* session sees the committed rows and, with autoflush, the rows the        *)
(* session itself has added: an upsert of a key that was already upserted   *)
(* is a no-op (store contract, section 4.4 of the specification).           *)

autoflush == TRUE

VisibleCommittedOnly(committed, pending) == committed
Visible(committed, pending) ==
    IF autoflush THEN committed \o pending ELSE committed

\* db_session.query(ChangeEvent).filter(connection_id == c, event_id == e).first()
NoExistingCheck(rows, c, e) == FALSE
ExistingAnyConnection(rows, c, e) ==
    \E i \in 1..Len(rows) : rows[i].event_id = e
Existing(rows, c, e) ==
    \E i \in 1..Len(rows) :
        rows[i].connection_id = c /\ rows[i].event_id = e

----------------------------------------------------------------------------
(* Deterministic dedup keys (event_id) *)

pr_event_id(full_name, number) ==
    "pr-" \o full_name \o "-" \o ToString(number)

release_event_id(full_name, id) ==
    "release-" \o full_name \o "-" \o ToString(id)

WorkflowKeyedAsPr(full_name, id) ==
    "pr-" \o full_name \o "-" \o ToString(id)
workflow_event_id(full_name, id) ==
    "workflow-" \o full_name \o "-" \o ToString(id)

commit_event_id(full_name, sha) ==
    "commit-" \o full_name \o "-" \o sha

registry_event_id(image, version_id) ==
    "registry-" \o image \o "-" \o ToString(version_id)

----------------------------------------------------------------------------
(* Processing of one repository inside fetch_with_session.                  *)
(*   ctx  = [c, repo, branches, committed, plan]                            *)
(*   acc  = [staged, fetched, stored, exc, swallowed]                       *)
(* plan = [at, exc] names the provider call that raises in this pass and    *)
(* the class of the exception ("GithubException" or "Exception" for any     *)
(* other class); at = "none" when no call raises.                           *)

NeverRaises(ctx, site) == FALSE
Raises(ctx, site) == ctx.plan.at = site

\* Calls inside a try block of their own: the optional detail calls
\* (bare except, lines 508-523, 623-634, 716-719) and the kinds fetched under
\* except Exception (lines 601-696, 754-829)
DetailSites == {"pr.get_files", "pr.get_reviews", "run.jobs", "commit.files"}

KindSites == {"get_workflow_runs", "registry.request"}

Raise(acc, ctx) == [acc EXCEPT !.exc = ctx.plan.exc]

SwallowAsRaise(acc) == [acc EXCEPT !.exc = "Exception"]
Swallow(acc) == [acc EXCEPT !.swallowed = TRUE]

\* existing = query(...).first(); if not existing: ...; db_session.add(db_event); total_stored += 1
StageAlways(acc, ctx, event_id, row) ==
    [acc EXCEPT !.staged = Append(@, row), !.stored = @ + 1]
Stage(acc, ctx, event_id, row) ==
    IF Existing(Visible(ctx.committed, acc.staged), ctx.c, event_id)
    THEN acc
    ELSE [acc EXCEPT !.staged = Append(@, row), !.stored = @ + 1]

\* if not existing: <detail calls>  -- the calls `sites` are made for the item
\* with key event_id only when the existence check found no row
RECURSIVE CallsFor(_, _)
CallsFor(sites, event_id) ==
    IF sites = <<>> THEN <<>>
    ELSE <<[site |-> Head(sites), event_id |-> event_id]>>
         \o CallsFor(Tail(sites), event_id)

CalledAlways(acc, ctx, event_id, sites) ==
    [acc EXCEPT !.calls = @ \o CallsFor(sites, event_id)]
Called(acc, ctx, event_id, sites) ==
    IF Existing(Visible(ctx.committed, acc.staged), ctx.c, event_id)
    THEN acc
    ELSE [acc EXCEPT !.calls = @ \o CallsFor(sites, event_id)]

NeverFilteredOut(ctx, ref) == FALSE
FilteredOut(ctx, ref) ==
    ctx.branches # <<>> /\ ~Contains(ctx.branches, ref)

NormalizePRKeyedByState(ctx, pr) ==
    [connection_id |-> ctx.c,
     source        |-> "github",
     event_id      |-> pr_event_id(ctx.repo, pr.number) \o "-" \o pr.state,
     title         |-> "[PR] " \o pr.title,
     description   |-> [text |-> OrEmpty(pr.body), labels |-> pr.labels,
                        files_changed |-> <<>>, related_events |-> <<>>],
     status        |-> pr.state,
     event_metadata |-> [repository |-> ctx.repo, pr_number |-> pr.number,
                         base_branch |-> pr.base, approved_count |-> 0,
                         changes_requested_count |-> 0]]
NormalizePR(ctx, pr) ==
    LET filesOk   == ~Raises(ctx, "pr.get_files")
        reviewsOk == ~Raises(ctx, "pr.get_reviews")
    IN  [connection_id |-> ctx.c,
         source        |-> "github",
         event_id      |-> pr_event_id(ctx.repo, pr.number),
         title         |-> "[PR] " \o pr.title,
         description   |-> [text           |-> OrEmpty(pr.body),
                            labels         |-> pr.labels,
                            files_changed  |-> IF filesOk THEN Take(pr.files, files_limit)
                                                          ELSE <<>>,
                            related_events |-> <<>>],
         status        |-> pr.state,
         event_metadata |-> [repository  |-> ctx.repo,
                             pr_number   |-> pr.number,
                             base_branch |-> pr.base,
                             approved_count |->
                                 IF reviewsOk THEN Count(pr.reviews, "APPROVED") ELSE 0,
                             changes_requested_count |->
                                 IF reviewsOk THEN Count(pr.reviews, "CHANGES_REQUESTED")
                                              ELSE 0]]

RECURSIVE PullsLoop(_, _, _)
PullsLoop(prs, acc, ctx) ==
    IF prs = <<>> \/ acc.exc # "none" THEN acc
    ELSE LET pr      == Head(prs)
             counted == [acc EXCEPT !.fetched = @ + 1]
             next    == IF FilteredOut(ctx, pr.base) THEN counted
                        ELSE Stage(Called(counted, ctx,
                                          pr_event_id(ctx.repo, pr.number),
                                          <<"pr.get_files", "pr.get_reviews">>),
                                   ctx, pr_event_id(ctx.repo, pr.number),
                                   NormalizePR(ctx, pr))
         IN  PullsLoop(Tail(prs), next, ctx)

FetchPulls(up, acc, ctx) ==
    IF acc.exc # "none" THEN acc
    ELSE IF Raises(ctx, "get_pulls") THEN Raise(acc, ctx)
    ELSE PullsLoop(Take(up.pulls, limit), acc, ctx)

NormalizeReleaseLinked(ctx, rel) ==
    [connection_id |-> ctx.c,
     source        |-> "github",
     event_id      |-> release_event_id(ctx.repo, rel.id),
     title         |-> "[Release] " \o rel.tag_name,
     description   |-> [text           |-> OrEmpty(rel.body),
                        assets         |-> rel.assets,
                        related_events |-> <<pr_event_id(ctx.repo, 1)>>],
     status        |-> "published",
     event_metadata |-> [repository |-> ctx.repo, tag_name |-> rel.tag_name]]
NormalizeRelease(ctx, rel) ==
    [connection_id |-> ctx.c,
     source        |-> "github",
     event_id      |-> release_event_id(ctx.repo, rel.id),
     title         |-> "[Release] " \o (IF rel.title \in {NULL, ""} THEN rel.tag_name
                                            ELSE rel.title),
     description   |-> [text           |-> OrEmpty(rel.body),
                        assets         |-> rel.assets,
                        related_events |-> <<>>],
     status        |-> IF ~rel.draft THEN "published" ELSE "draft",
     event_metadata |-> [repository |-> ctx.repo, tag_name |-> rel.tag_name]]

RECURSIVE ReleasesLoop(_, _, _)
ReleasesLoop(rels, acc, ctx) ==
    IF rels = <<>> \/ acc.exc # "none" THEN acc
    ELSE LET rel     == Head(rels)
             counted == [acc EXCEPT !.fetched = @ + 1]
             eid     == release_event_id(ctx.repo, rel.id)
             next    == IF Existing(Visible(ctx.committed, acc.staged), ctx.c, eid)
                        THEN counted
                        ELSE IF Raises(ctx, "release.get_assets")
                        THEN Raise(Called(counted, ctx, eid, <<"release.get_assets">>),
                                   ctx)
                        ELSE Stage(Called(counted, ctx, eid, <<"release.get_assets">>),
                                   ctx, eid, NormalizeRelease(ctx, rel))
         IN  ReleasesLoop(Tail(rels), next, ctx)

FetchReleases(up, acc, ctx) ==
    IF acc.exc # "none" THEN acc
    ELSE IF Raises(ctx, "get_releases") THEN Raise(acc, ctx)
    ELSE ReleasesLoop(Take(up.releases, limit), acc, ctx)

FailedConclusions == {"failure", "timed_out", "cancelled"}

RawConclusion(conclusion) == conclusion
status_emoji(conclusion) ==
    CASE conclusion = "success"   -> "ok"
      [] conclusion = "failure"   -> "x"
      [] conclusion = "cancelled" -> "(x)"
      [] conclusion = "skipped"   -> "(/)"
      [] conclusion = "timed_out" -> "clock"
      [] OTHER                    -> "*"

RECURSIVE FailedJobs(_)
FailedJobs(jobs) ==
    IF jobs = <<>> THEN <<>>
    ELSE (IF Head(jobs).conclusion \in FailedConclusions
          THEN <<[name |-> Head(jobs).name, conclusion |-> Head(jobs).conclusion]>>
          ELSE <<>>) \o FailedJobs(Tail(jobs))

NormalizeRun(ctx, run) ==
    LET failed_jobs ==
            IF run.conclusion \in FailedConclusions /\ ~Raises(ctx, "run.jobs")
            THEN FailedJobs(run.jobs) ELSE <<>>
        duration_seconds ==
            IF run.created_at # None /\ run.updated_at # None
            THEN run.updated_at - run.created_at ELSE None
    IN  [connection_id |-> ctx.c,
         source        |-> "github",
         event_id      |-> workflow_event_id(ctx.repo, run.id),
         title         |-> "[Workflow] " \o status_emoji(run.conclusion) \o " "
                           \o run.name \o " - " \o run.head_branch,
         description   |-> [text           |-> "Workflow: " \o run.name,
                            labels         |-> <<>>,
                            failed_jobs    |-> failed_jobs,
                            related_events |-> <<>>],
         status        |-> IF run.conclusion # NULL THEN run.conclusion ELSE run.status,
         event_metadata |-> [repository        |-> ctx.repo,
                             branch            |-> run.head_branch,
                             conclusion        |-> run.conclusion,
                             duration_seconds  |-> duration_seconds,
                             failed_jobs_count |-> Len(failed_jobs)]]

RECURSIVE RunsLoop(_, _, _)
RunsLoop(runs, acc, ctx) ==
    IF runs = <<>> \/ acc.exc # "none" THEN acc
    ELSE LET run     == Head(runs)
             counted == [acc EXCEPT !.fetched = @ + 1]
             next    == IF FilteredOut(ctx, run.head_branch) THEN counted
                        ELSE Stage(Called(counted, ctx,
                                          workflow_event_id(ctx.repo, run.id),
                                          IF run.conclusion \in FailedConclusions
                                          THEN <<"run.jobs">> ELSE <<>>),
                                   ctx, workflow_event_id(ctx.repo, run.id),
                                   NormalizeRun(ctx, run))
         IN  RunsLoop(Tail(runs), next, ctx)

\* try: ... except Exception: print(...)   (every exception class is swallowed)
FetchWorkflows(up, acc, ctx) ==
    IF acc.exc # "none" THEN acc
    ELSE IF Raises(ctx, "get_workflow_runs") THEN Swallow(acc)
    ELSE RunsLoop(Take(up.runs, limit), acc, ctx)

NormalizeCommit(ctx, branch_name, commit) ==
    [connection_id |-> ctx.c,
     source        |-> "github",
     event_id      |-> commit_event_id(ctx.repo, commit.sha),
     title         |-> "[Commit] " \o Head(commit.message),
     description   |-> [text           |-> commit.message,
                        labels         |-> <<>>,
                        files_changed  |-> IF Raises(ctx, "commit.files") THEN <<>>
                                           ELSE Take(commit.files, files_limit),
                        related_events |-> <<>>],
     status        |-> "committed",
     event_metadata |-> [repository |-> ctx.repo,
                         branch     |-> branch_name,
                         sha        |-> commit.sha]]

RECURSIVE CommitsLoop(_, _, _, _)
CommitsLoop(commits, branch_name, acc, ctx) ==
    IF commits = <<>> \/ acc.exc # "none" THEN acc
    ELSE LET commit  == Head(commits)
             counted == [acc EXCEPT !.fetched = @ + 1]
             next    == Stage(Called(counted, ctx,
                                     commit_event_id(ctx.repo, commit.sha),
                                     <<"commit.files">>),
                              ctx, commit_event_id(ctx.repo, commit.sha),
                              NormalizeCommit(ctx, branch_name, commit))
         IN  CommitsLoop(Tail(commits), branch_name, next, ctx)

\* for branch_name in branches: try: ... except GithubException: continue
RECURSIVE BranchesLoop(_, _, _, _)
BranchesLoop(names, up, acc, ctx) ==
    IF names = <<>> \/ acc.exc # "none" THEN acc
    ELSE LET branch_name == Head(names)
             next ==
                 IF Raises(ctx, "get_branch")
                 THEN (IF ctx.plan.exc = "GithubException" THEN Swallow(acc)
                                                           ELSE Raise(acc, ctx))
                 ELSE IF branch_name \notin DOMAIN up.commits
                 THEN acc  \* 404 from get_branch: a GithubException, skipped
                 ELSE CommitsLoop(Take(up.commits[branch_name], limit),
                                  branch_name, acc, ctx)
         IN  BranchesLoop(Tail(names), up, next, ctx)

FetchCommits(up, acc, ctx) ==
    IF acc.exc # "none" THEN acc
    ELSE IF ctx.branches # <<>> THEN BranchesLoop(ctx.branches, up, acc, ctx)
    ELSE acc

\* str.lower() on the organisation names of the model
Lower(s) == IF s = "Org" THEN "org" ELSE s

\* if not tags or len(tags) == 0: continue
KeepUntagged(tags) == FALSE
Untagged(tags) == tags = <<>>

\* ', '.join(parts)
RECURSIVE JoinComma(_)
JoinComma(parts) ==
    IF parts = <<>> THEN ""
    ELSE IF Len(parts) = 1 THEN Head(parts)
    ELSE Head(parts) \o ", " \o JoinComma(Tail(parts))

RECURSIVE VersionsLoop(_, _, _)
VersionsLoop(versions, org_name, package_name) ==
    IF versions = <<>> THEN <<>>
    ELSE LET version == Head(versions)
             \* version.container: <<>> when the metadata has no container entry
             tags    == IF version.container # <<>> THEN version.container[1].tags
                                                    ELSE <<>>
         IN  (IF Untagged(tags) THEN <<>>   \* skip untagged images
              ELSE <<[name         |-> "ghcr.io/" \o Lower(org_name) \o "/" \o package_name,
                      package_name |-> package_name,
                      version_id   |-> version.id,
                      tags         |-> tags,
                      digest       |-> version.name,
                      size         |-> None]>>)
             \o VersionsLoop(Tail(versions), org_name, package_name)

RECURSIVE PackagesLoop(_, _)
PackagesLoop(package_list, org_name) ==
    IF package_list = <<>> THEN <<>>
    ELSE LET package == Head(package_list)
         IN  (IF package.versions_status # 200 THEN <<>>
              ELSE VersionsLoop(Take(package.versions, versions_limit),
                                org_name, package.name))
             \o PackagesLoop(Tail(package_list), org_name)

\* GitHubConnector._fetch_registry_packages(org_name, repo_full_name)
fetch_registry_packages(orgs, org_name, ctx) ==
    IF Raises(ctx, "registry.request") THEN <<>>
    ELSE IF org_name \notin DOMAIN orgs THEN <<>>
    ELSE IF orgs[org_name].status_code # 200 THEN <<>>
    ELSE PackagesLoop(Take(orgs[org_name].package_list, packages_limit), org_name)

\* size_mb = round(size / 2^20, 2); size_mb < 1024 -> "<mb>MB" else
\* "<round(size_mb / 1024, 2)>GB"; sizes are kept in hundredths, rounded to
\* the nearest
FormatSize(size_value) ==
    LET \* size * 100 / 2^20 = size * 25 / 2^18, computed in two parts so that
        \* no intermediate value leaves the integers of the model checker
        q     == size_value \div (256 * 1024)
        r     == size_value % (256 * 1024)
        mb100 == q * 25 + (r * 25 + 128 * 1024) \div (256 * 1024)
    IN  IF mb100 < 1024 * 100 THEN [value100 |-> mb100, unit |-> "MB"]
        ELSE [value100 |-> (2 * mb100 + 1024) \div (2 * 1024), unit |-> "GB"]

NormalizePackageZeroSize(ctx, pkg) ==
    [connection_id |-> ctx.c,
     source        |-> "github",
     event_id      |-> registry_event_id(pkg.name, pkg.version_id),
     title         |-> "[Image] " \o pkg.name \o ":" \o JoinComma(Take(pkg.tags, 3)),
     description   |-> [text           |-> "Container image pushed to GitHub Container Registry",
                        labels         |-> pkg.tags,
                        metadata       |-> [registry |-> "ghcr.io", image |-> pkg.name,
                                            digest_short |-> pkg.digest,
                                            size |-> [value100 |-> 0, unit |-> "MB"]],
                        related_events |-> <<>>],
     status        |-> "published",
     event_metadata |-> [registry   |-> "ghcr.io",
                         package    |-> pkg.package_name,
                         tags       |-> pkg.tags,
                         size_bytes |-> 0,
                         repository |-> ctx.repo]]
NormalizePackage(ctx, pkg) ==
    LET size_value == pkg.size
        base == [registry |-> "ghcr.io", image |-> pkg.name,
                 digest_short |-> IF pkg.digest # "" THEN pkg.digest ELSE "N/A"]
        metadata == IF size_value # None /\ size_value > 0
                    THEN [registry |-> base.registry, image |-> base.image,
                          digest_short |-> base.digest_short,
                          size |-> FormatSize(size_value)]
                    ELSE base
    IN  [connection_id |-> ctx.c,
         source        |-> "github",
         event_id      |-> registry_event_id(pkg.name, pkg.version_id),
         title         |-> "[Image] " \o pkg.name \o ":" \o JoinComma(Take(pkg.tags, 3)),
         description   |-> [text           |-> "Container image pushed to GitHub Container Registry",
                            labels         |-> pkg.tags,
                            metadata       |-> metadata,
                            related_events |-> <<>>],
         status        |-> "published",
         event_metadata |-> [registry   |-> "ghcr.io",
                             package    |-> pkg.package_name,
                             tags       |-> pkg.tags,
                             size_bytes |-> pkg.size,
                             repository |-> ctx.repo]]

RECURSIVE PkgLoop(_, _, _)
PkgLoop(packages, acc, ctx) ==
    IF packages = <<>> \/ acc.exc # "none" THEN acc
    ELSE LET pkg     == Head(packages)
             counted == [acc EXCEPT !.fetched = @ + 1]
             next    == Stage(counted, ctx, registry_event_id(pkg.name, pkg.version_id),
                              NormalizePackage(ctx, pkg))
         IN  PkgLoop(Tail(packages), next, ctx)

\* try: org_name = repo.full_name.split('/')[0]; ... except Exception: print(...)
FetchRegistry(up, orgs, acc, ctx) ==
    IF acc.exc # "none" THEN acc
    ELSE IF Raises(ctx, "registry.request") THEN Swallow(acc)
    ELSE PkgLoop(fetch_registry_packages(orgs, up.owner, ctx), acc, ctx)

\* The body of  for repo in repos_to_fetch: try: ...  up to db_session.commit()
ProcessRepo(up, orgs, ctx) ==
    LET acc0 == [staged |-> <<>>, fetched |-> 0, stored |-> 0, exc |-> "none",
                 swallowed |-> FALSE, calls |-> <<>>]
        a1 == FetchPulls(up, acc0, ctx)
        a2 == FetchReleases(up, a1, ctx)
        a3 == FetchWorkflows(up, a2, ctx)
        a4 == FetchCommits(up, a3, ctx)
    IN  FetchRegistry(up, orgs, a4, ctx)

\* What each kind added to total_fetched in the pass over one repository
KindCounts(up, orgs, ctx) ==
    LET acc0 == [staged |-> <<>>, fetched |-> 0, stored |-> 0, exc |-> "none",
                 swallowed |-> FALSE, calls |-> <<>>]
        a1 == FetchPulls(up, acc0, ctx)
        a2 == FetchReleases(up, a1, ctx)
        a3 == FetchWorkflows(up, a2, ctx)
        a4 == FetchCommits(up, a3, ctx)
        a5 == FetchRegistry(up, orgs, a4, ctx)
    IN  [pulls    |-> a1.fetched,
         releases |-> a2.fetched - a1.fetched,
         runs     |-> a3.fetched - a2.fetched,
         commits  |-> a4.fetched - a3.fetched,
         registry |-> a5.fetched - a4.fetched]

\* for repo_name in connector.repos: try: repos_to_fetch.append(get_repo(...))
\* except GithubException: print(...)   (`ok`: the names get_repo can access)
ExplicitOrDiscovered(repos, ok, up) ==
    IF SelectNames(repos, ok \cap DOMAIN up.repos) = <<>>
    THEN Take(up.account, discovery_limit)
    ELSE SelectNames(repos, ok \cap DOMAIN up.repos)
ExplicitRepos(repos, ok, up) == SelectNames(repos, ok \cap DOMAIN up.repos)

----------------------------------------------------------------------------
(* Exception handlers and session operations *)

\* except GithubException as e: ... db_session.rollback(); continue
\* (any other class reaches  except Exception: db_session.rollback(); raise e)
RepoHandlerRaisesAll(exc) == "raise"
RepoHandler(exc) ==
    IF exc = "GithubException" THEN "continue" ELSE "raise"

\* db_session.commit() at the end of a repository: pending rows become stored
CommitDeferred(committed, pending) ==
    [store |-> committed, session |-> pending]
CommitReplacing(committed, pending) ==
    [store |-> pending, session |-> <<>>]
Commit(committed, pending) ==
    [store |-> committed \o pending, session |-> <<>>]

\* db_session.rollback(): pending rows are discarded
RollbackAsCommit(committed, pending) ==
    [store |-> committed \o pending, session |-> <<>>]
Rollback(committed, pending) ==
    [store |-> committed, session |-> <<>>]

\* db.query(Connection).filter(id == connection_id[, enabled == True]):
\* the matching rows, <<>> when .first() is None
FindAnyConnection(conns, connection_id) ==
    IF connection_id \in DOMAIN conns THEN <<conns[connection_id]>> ELSE <<>>
FindConnectionIgnoringEnabled(conns, connection_id) ==
    IF connection_id \in DOMAIN conns THEN <<conns[connection_id]>> ELSE <<>>
FindEnabledConnection(conns, connection_id) ==
    IF connection_id \in DOMAIN conns /\ conns[connection_id].enabled
    THEN <<conns[connection_id]>> ELSE <<>>

\* get_connector_module: importlib.import_module(...) or None on ImportError
ImportAnyModule(connector_type) == connector_type
get_connector_module(connector_type) ==
    IF connector_type \in RegisteredTypes THEN connector_type ELSE NULL

\* except Exception as e: return {"status": "error", "error": str(e)}
PollExceptPropagates(e) == [status |-> "raised", error |-> e]
PollExcept(e) == [status |-> "error", error |-> e]

\* return {"status": "success", "result": result}
PollSuccessAsError(sync_result) == [status |-> "error", error |-> "sync failed"]
PollSuccess(sync_result) == [status |-> "success", result |-> sync_result]

\* connection.last_sync = datetime.utcnow()
KeepLastSync(connection, now) == connection
UpdateLastSync(connection, now) == [connection EXCEPT !.last_sync = now]

\* token = config.get('token', '')
ConfigToken(config) == IF "token" \in DOMAIN config THEN config.token ELSE ""

\* if not token: return {"error": "No GitHub token configured"}
TokenAlwaysSet(token) == FALSE
NoToken(token) == token \in {"", NULL}

\* GitHubConnector.test_connection: client.get_user().login raised `outcome`
\* ("ok" when it raised nothing); a GithubException is turned into False, an
\* exception of another class is not caught
TestConnectionAlwaysTrue(outcome) == TRUE
test_connection(outcome) == outcome = "ok"

----------------------------------------------------------------------------
(* Data of the model *)

Token == "ghp_token"

DefaultConnection ==
    [type |-> "github",
     config |-> [token |-> Token, repos |-> <<"Org/a", "Org/b">>, branches |-> <<>>]]

ConnectionChoices ==
    { [type |-> "github",
       config |-> [token |-> Token, repos |-> <<"Org/a", "Org/b">>, branches |-> <<>>]],
      [type |-> "github",
       config |-> [token |-> Token, repos |-> <<>>, branches |-> <<"main", "dev">>]],
      [type |-> "github",
       config |-> [token |-> "", repos |-> <<>>, branches |-> <<>>]],
      [type |-> "github",
       config |-> [repos |-> <<"Org/a">>, branches |-> <<>>]],
      [type |-> "jira",
       config |-> [token |-> Token, repos |-> <<>>, branches |-> <<>>]] }

Pr1 == [number |-> 1, title |-> "Fix login", body |-> NULL, labels |-> <<"bug">>,
        state |-> "open", base |-> "main", files |-> <<"app.py">>,
        reviews |-> <<"APPROVED">>]

Commit1 == [sha |-> "c0ffee", message |-> <<"Initial commit">>, files |-> <<"app.py">>]

Run7 == [id |-> 7, name |-> "CI", head_branch |-> "main", conclusion |-> "failure",
         status |-> "completed", jobs |-> <<[name |-> "test", conclusion |-> "failure"]>>,
         created_at |-> 10, updated_at |-> 70]

InitialUpstream ==
    [repos |->
        [n \in {"Org/a", "Org/b"} |->
            IF n = "Org/a"
            THEN [owner |-> "Org", pulls |-> <<Pr1>>, releases |-> <<>>, runs |-> <<>>,
                  commits |-> [b \in {"main", "dev"} |-> <<Commit1>>]]
            ELSE [owner |-> "Org", pulls |-> <<>>, releases |-> <<>>, runs |-> <<Run7>>,
                  commits |-> [b \in {"main"} |-> <<>>]]],
     orgs |-> [o \in {"Org"} |-> [status_code |-> 404, package_list |-> <<>>]],
     account |-> <<"Org/a", "Org/b">>]

NoPlan == [at |-> "none", exc |-> "none"]

Plans ==
    { NoPlan,
      [at |-> "get_releases", exc |-> "GithubException"],
      [at |-> "get_releases", exc |-> "Exception"],
      [at |-> "get_workflow_runs", exc |-> "Exception"],
      [at |-> "get_branch", exc |-> "GithubException"],
      [at |-> "get_branch", exc |-> "Exception"] }

----------------------------------------------------------------------------
(* State of an idle worker *)

\* `result` of poll_connection before  result = sync_func(...)  has run
Unassigned == [unassigned |-> TRUE]

IdleLocal ==
    [repos_to_fetch |-> <<>>, idx |-> 0, total_fetched |-> 0, total_stored |-> 0,
     sync_result |-> Unassigned]

IdleHist ==
    [lastSyncBefore |-> None, storeBefore |-> <<>>, cleanStart |-> FALSE,
     netCalls |-> FALSE, noToken |-> FALSE, tested |-> FALSE, testFailed |-> FALSE,
     wasEnabled |-> FALSE,
     failed |-> FALSE, escaped |-> "none", visited |-> 0, skipped |-> <<>>,
     completedRows |-> <<>>, abortedStaged |-> <<>>,
     repo |-> NULL, tolerated |-> <<>>, accessible |-> {},
     calls |-> <<>>,
     kinds |-> [pulls |-> 0, releases |-> 0, runs |-> 0, commits |-> 0,
                registry |-> 0]]

NoResult == [status |-> "none"]

\* The standalone connector before fetch_and_store_changes is called
IdleStandalone ==
    [pc |-> "idle", db |-> <<>>, repos_to_fetch |-> <<>>, idx |-> 0,
     total_fetched |-> 0, total_stored |-> 0, accessible |-> {}, plans |-> <<>>,
     result |-> NoResult]

Init ==
    /\ \E ch \in ConnectionChoices :
          connections = [c \in ConnIds |->
                            [type      |-> IF c = 1 THEN ch.type ELSE DefaultConnection.type,
                             config    |-> IF c = 1 THEN ch.config
                                                    ELSE DefaultConnection.config,
                             enabled   |-> TRUE,
                             last_sync |-> None]]
    /\ store = <<>>
    /\ upstream = InitialUpstream
    /\ pc = [w \in Workers |-> "idle"]
    /\ task = [w \in Workers |-> None]
    /\ local = [w \in Workers |-> IdleLocal]
    /\ session = [w \in Workers |-> <<>>]
    /\ result = [w \in Workers |-> NoResult]
    /\ clock = 0
    /\ changes = 0
    /\ synced = [c \in ConnIds |-> FALSE]
    /\ hist = [w \in Workers |-> IdleHist]
    /\ standalone = IdleStandalone

----------------------------------------------------------------------------
(* Callers of the task *)

\* POST /api/connections/{id}/sync: 404 when missing, 400 when disabled
trigger_sync(w, cid) ==
    /\ pc[w] = "idle"
    /\ clock < MaxRuns
    /\ FindAnyConnection(connections, cid) # <<>>
    /\ connections[cid].enabled
    /\ pc' = [pc EXCEPT ![w] = "queued"]
    /\ task' = [task EXCEPT ![w] = cid]
    /\ UNCHANGED <<standalone, connections, store, upstream, local, session, result, clock,
                   changes, synced, hist>>

\* poll_connection called with an id that has no row
poll_unknown(w) ==
    /\ pc[w] = "idle"
    /\ clock < MaxRuns
    /\ pc' = [pc EXCEPT ![w] = "queued"]
    /\ task' = [task EXCEPT ![w] = MissingId]
    /\ UNCHANGED <<standalone, connections, store, upstream, local, session, result, clock,
                   changes, synced, hist>>

\* PUT /api/connections/{id}: the enabled flag is switched
update_connection(cid) ==
    /\ changes < MaxChanges
    /\ changes' = changes + 1
    /\ connections' = [connections EXCEPT ![cid].enabled = ~@]
    /\ UNCHANGED <<standalone, store, upstream, pc, task, local, session, result, clock,
                   synced, hist>>

\* The provider's data changes: the pull request of Org/a is merged
UpstreamChange ==
    /\ changes < MaxChanges
    /\ changes' = changes + 1
    /\ upstream' = [upstream EXCEPT !.repos["Org/a"].pulls[1].state = "closed"]
    /\ synced' = [c \in ConnIds |-> FALSE]
    /\ UNCHANGED <<standalone, connections, store, pc, task, local, session, result, clock, hist>>

----------------------------------------------------------------------------
(* poll_connection *)

Unsync(cid) ==
    IF cid \in ConnIds THEN [synced EXCEPT ![cid] = FALSE] ELSE synced

\* Lines 33-56: connection lookup and connector resolution, called at `now`
PollLookupAt(w, now) ==
    /\ pc[w] = "queued"
    /\ clock' = now
    /\ LET connection == FindEnabledConnection(connections, task[w])
           started == [IdleHist EXCEPT
                         !.lastSyncBefore =
                             IF task[w] \in ConnIds THEN connections[task[w]].last_sync
                                                    ELSE None,
                         !.storeBefore = store,
                         !.wasEnabled =
                             task[w] \in ConnIds /\ connections[task[w]].enabled,
                         !.cleanStart =
                             IF task[w] \in ConnIds THEN synced[task[w]] ELSE FALSE]
       IN  /\ hist' = [hist EXCEPT ![w] = started]
           /\ IF connection = <<>>
              THEN /\ result' = [result EXCEPT ![w] =
                                   [status |-> "skipped",
                                    reason |-> "disabled or not found"]]
                   /\ pc' = [pc EXCEPT ![w] = "done"]
                   /\ synced' = Unsync(task[w])
              ELSE IF get_connector_module(connection[1].type) = NULL
              THEN /\ result' = [result EXCEPT ![w] =
                                   [status |-> "error", reason |-> "module not found"]]
                   /\ pc' = [pc EXCEPT ![w] = "done"]
                   /\ synced' = Unsync(task[w])
              ELSE /\ pc' = [pc EXCEPT ![w] = "sync"]
                   /\ UNCHANGED <<result, synced>>
    /\ UNCHANGED <<standalone, connections, store, upstream, task, local, session, changes>>

PollLookup(w) == PollLookupAt(w, clock + 1)

\* sync_github up to test_connection (connector.py 436-458)
SyncStart(w) ==
    /\ pc[w] = "sync"
    /\ LET token == ConfigToken(connections[task[w]].config)
       IN  IF NoToken(token)
           THEN /\ local' = [local EXCEPT ![w].sync_result =
                                [error |-> "No GitHub token configured"]]
                /\ hist' = [hist EXCEPT ![w].noToken = TRUE, ![w].failed = TRUE]
                /\ pc' = [pc EXCEPT ![w] = "returned"]
                /\ UNCHANGED <<result, synced>>
           ELSE \E outcome \in {"ok", "GithubException", "Exception"} :
                LET called == [hist[w] EXCEPT !.netCalls = TRUE,
                                              !.tested = TRUE,
                                              !.testFailed = (outcome # "ok"),
                                              !.failed = @ \/ (outcome # "ok")]
                IN  /\ hist' = [hist EXCEPT ![w] = called]
                    /\ IF outcome = "Exception"
                       THEN \* not caught by test_connection nor by sync_github
                            /\ result' = [result EXCEPT ![w] =
                                             PollExcept("connection error")]
                            /\ pc' = [pc EXCEPT ![w] = "done"]
                            /\ synced' = Unsync(task[w])
                            /\ UNCHANGED local
                       ELSE IF ~test_connection(outcome)
                       THEN /\ local' = [local EXCEPT ![w].sync_result =
                                            [error |-> "Failed to connect to GitHub"]]
                            /\ pc' = [pc EXCEPT ![w] = "returned"]
                            /\ UNCHANGED <<result, synced>>
                       ELSE /\ pc' = [pc EXCEPT ![w] = "enumerate"]
                            /\ UNCHANGED <<local, result, synced>>
    /\ UNCHANGED <<standalone, connections, store, upstream, task, session, clock, changes>>

\* fetch_with_session 477-485: the repositories to fetch
Enumerate(w) ==
    /\ pc[w] = "enumerate"
    /\ LET repos == connections[task[w]].config.repos
       IN  \/ /\ repos # <<>>
              \* get_repo raises GithubException for the names outside `ok`
              /\ \E ok \in SUBSET Range(repos) :
                    /\ local' = [local EXCEPT
                                   ![w].repos_to_fetch = ExplicitRepos(repos, ok, upstream),
                                   ![w].idx = 1]
                    /\ hist' = [hist EXCEPT ![w].failed = (ok # Range(repos)),
                                            ![w].accessible = ok]
              /\ pc' = [pc EXCEPT ![w] = "fetch"]
              /\ UNCHANGED <<result, synced>>
           \/ /\ repos = <<>>
              /\ local' = [local EXCEPT
                             ![w].repos_to_fetch = Take(upstream.account, discovery_limit),
                             ![w].idx = 1]
              /\ pc' = [pc EXCEPT ![w] = "fetch"]
              /\ UNCHANGED <<result, synced, hist>>
           \/ \* get_user().get_repos() raises, or get_repo raises an exception that
              \* is no GithubException: except Exception: rollback; raise
              /\ hist' = [hist EXCEPT ![w].failed = TRUE]
              /\ result' = [result EXCEPT ![w] = PollExcept("discovery failed")]
              /\ pc' = [pc EXCEPT ![w] = "done"]
              /\ synced' = Unsync(task[w])
              /\ UNCHANGED local
    /\ UNCHANGED <<standalone, connections, store, upstream, task, session, clock, changes>>

\* One pass of  for repo in repos_to_fetch  up to, not including, commit()
FetchRepo(w, plans) ==
    /\ pc[w] = "fetch"
    /\ local[w].idx <= Len(local[w].repos_to_fetch)
    /\ \E plan \in plans :
          LET repo == local[w].repos_to_fetch[local[w].idx]
              ctx  == [c |-> task[w], repo |-> repo,
                       branches |-> connections[task[w]].config.branches,
                       committed |-> Visible(store, session[w]), plan |-> plan]
              r    == ProcessRepo(upstream.repos[repo], upstream.orgs, ctx)
              pending == session[w] \o r.staged
              counted == [local[w] EXCEPT !.total_fetched = @ + r.fetched,
                                          !.total_stored = @ + r.stored]
              seen == [hist[w] EXCEPT !.visited = @ + 1,
                                      !.failed = @ \/ r.swallowed \/ r.exc # "none",
                                      !.repo = repo,
                                      !.calls = r.calls,
                                      !.tolerated =
                                          IF plan.at \in DetailSites \cup KindSites
                                          THEN Append(@, [idx |-> local[w].idx,
                                                          repo |-> repo,
                                                          at |-> plan.at])
                                          ELSE @,
                                      !.kinds = KindCounts(upstream.repos[repo],
                                                           upstream.orgs, ctx)]
          IN  IF r.exc = "none"
              THEN /\ session' = [session EXCEPT ![w] = pending]
                   /\ local' = [local EXCEPT ![w] = counted]
                   /\ hist' = [hist EXCEPT ![w] = seen]
                   /\ pc' = [pc EXCEPT ![w] = "commit"]
                   /\ UNCHANGED <<store, result, synced>>
              ELSE IF RepoHandler(r.exc) = "continue"
              THEN /\ store' = Rollback(store, pending).store
                   /\ session' = [session EXCEPT ![w] = Rollback(store, pending).session]
                   /\ local' = [local EXCEPT ![w] = [counted EXCEPT !.idx = @ + 1]]
                   /\ hist' = [hist EXCEPT ![w] =
                                  [seen EXCEPT !.skipped = Append(@, local[w].idx)]]
                   /\ UNCHANGED <<pc, result, synced>>
              ELSE /\ store' = Rollback(store, pending).store
                   /\ session' = [session EXCEPT ![w] = Rollback(store, pending).session]
                   /\ local' = [local EXCEPT ![w] = counted]
                   /\ hist' = [hist EXCEPT ![w] = [seen EXCEPT !.escaped = r.exc,
                                                               !.abortedStaged = r.staged]]
                   /\ result' = [result EXCEPT ![w] = PollExcept("fetch failed")]
                   /\ pc' = [pc EXCEPT ![w] = "done"]
                   /\ synced' = Unsync(task[w])
    /\ UNCHANGED <<standalone, connections, upstream, task, clock, changes>>

\* db_session.commit() at the end of the pass (line 831)
CommitRepo(w) ==
    /\ pc[w] = "commit"
    /\ LET after == Commit(store, session[w])
       IN  /\ store' = after.store
           /\ session' = [session EXCEPT ![w] = after.session]
           /\ hist' = [hist EXCEPT ![w].completedRows = @ \o session[w]]
    /\ local' = [local EXCEPT ![w].idx = @ + 1]
    /\ pc' = [pc EXCEPT ![w] = "fetch"]
    /\ UNCHANGED <<standalone, connections, upstream, task, result, clock, changes, synced>>

\* return {"fetched": total_fetched, "stored": total_stored}
FetchReturn(w) ==
    /\ pc[w] = "fetch"
    /\ local[w].idx > Len(local[w].repos_to_fetch)
    /\ local' = [local EXCEPT ![w].sync_result =
                    [fetched |-> local[w].total_fetched,
                     stored  |-> local[w].total_stored]]
    /\ pc' = [pc EXCEPT ![w] = "returned"]
    /\ UNCHANGED <<standalone, connections, store, upstream, task, session, result, clock,
                   changes, synced, hist>>

\* Lines 61-66: connection.last_sync = utcnow(); db.commit(); return success
PollFinish(w) ==
    /\ pc[w] = "returned"
    /\ connections' = [connections EXCEPT
                          ![task[w]] = UpdateLastSync(connections[task[w]], clock)]
    /\ result' = [result EXCEPT ![w] = PollSuccess(local[w].sync_result)]
    /\ synced' = [synced EXCEPT ![task[w]] = ~hist[w].failed]
    /\ pc' = [pc EXCEPT ![w] = "done"]
    \* db.commit() writes last_sync and whatever the session still holds
    /\ store' = Commit(store, session[w]).store
    /\ session' = [session EXCEPT ![w] = Commit(store, session[w]).session]
    /\ UNCHANGED <<standalone, upstream, task, local, clock, changes, hist>>

\* finally: db.close(); the task ends and the worker is free again
TaskEnd(w) ==
    /\ pc[w] = "done"
    /\ pc' = [pc EXCEPT ![w] = "idle"]
    /\ task' = [task EXCEPT ![w] = None]
    /\ local' = [local EXCEPT ![w] = IdleLocal]
    /\ session' = [session EXCEPT ![w] = <<>>]
    /\ result' = [result EXCEPT ![w] = NoResult]
    /\ hist' = [hist EXCEPT ![w] = IdleHist]
    /\ UNCHANGED <<standalone, connections, store, upstream, clock, changes, synced>>

----------------------------------------------------------------------------
(* Specifications *)

Task(w) ==
    \/ \E cid \in ConnIds : trigger_sync(w, cid)
    \/ poll_unknown(w)
    \/ PollLookup(w)
    \/ SyncStart(w)
    \/ Enumerate(w)
    \/ FetchRepo(w, Plans)
    \/ CommitRepo(w)
    \/ FetchReturn(w)
    \/ PollFinish(w)
    \/ TaskEnd(w)

Environment ==
    \/ \E cid \in ConnIds : update_connection(cid)
    \/ UpstreamChange

\* Sync runs one after the other: a single Celery worker
Next == Task(1) \/ Environment

Spec == Init /\ [][Next]_vars

\* Overlapping runs: two Celery workers take tasks at the same time
ConcTask(w) ==
    \/ \E cid \in ConnIds : trigger_sync(w, cid)
    \/ PollLookup(w)
    \/ SyncStart(w)
    \/ Enumerate(w)
    \/ FetchRepo(w, {NoPlan})
    \/ CommitRepo(w)
    \/ FetchReturn(w)
    \/ PollFinish(w)
    \/ TaskEnd(w)

ConcNext == \E w \in Workers : ConcTask(w)

ConcSpec == Init /\ [][ConcNext]_vars

----------------------------------------------------------------------------
(* Repositories with more items than the caps, and with branches outside the *)
(* allowlist, synced again and again by the periodic task.                  *)

MkPr(n, base_ref) ==
    [number |-> n, title |-> "Change", body |-> NULL, labels |-> <<>>,
     state |-> "closed", base |-> base_ref, files |-> <<>>, reviews |-> <<>>]

MkRun(n, branch_name) ==
    [id |-> n, name |-> "CI", head_branch |-> branch_name, conclusion |-> "success",
     status |-> "completed", jobs |-> <<>>, created_at |-> None, updated_at |-> None]

MkCommit(branch_name, n) ==
    [sha |-> branch_name \o ToString(n), message |-> <<"Change">>, files |-> <<>>]

MkVersion(n) ==
    [id |-> n, name |-> "sha256", container |-> <<[tags |-> <<"latest">>]>>]

MkPackage(n) ==
    [name |-> "img" \o ToString(n), versions_status |-> 200,
     versions |-> [i \in 1..(versions_limit + 1) |-> MkVersion(n * limit + i)]]

EmptyRepo ==
    [owner |-> "Org", pulls |-> <<>>, releases |-> <<>>, runs |-> <<>>,
     commits |-> [b \in {"main"} |-> <<>>]]

NoPackages == [o \in {"Org"} |-> [status_code |-> 404, package_list |-> <<>>]]

OneRepo(repo, orgs) ==
    [repos |-> [n \in {"Org/r"} |-> repo], orgs |-> orgs, account |-> <<"Org/r">>]

RepoName(n) == "Org/r" \o ToString(n)

MkRelease(n) ==
    [id |-> n, title |-> "", tag_name |-> "v" \o ToString(n), body |-> NULL,
     draft |-> TRUE, assets |-> <<>>]

\* The conclusions of a workflow run: the five with an indicator of their own,
\* two others, and none (the run has not completed)
RunConclusions ==
    <<"success", "failure", "cancelled", "skipped", "timed_out", "neutral",
      "action_required", NULL>>

\* A repository with one item of every kind and a run of every conclusion
EveryKind ==
    OneRepo([EmptyRepo EXCEPT
                !.pulls = <<MkPr(1, "main")>>,
                !.releases = <<MkRelease(1)>>,
                !.runs = [i \in 1..Len(RunConclusions) |->
                             [MkRun(i, "main") EXCEPT
                                 !.conclusion = RunConclusions[i],
                                 !.status = IF RunConclusions[i] = NULL
                                            THEN "in_progress" ELSE "completed"]],
                !.commits = [b \in {"main"} |-> <<MkCommit("main", 1)>>]],
            [o \in {"Org"} |->
                [status_code  |-> 200,
                 package_list |-> <<[name |-> "app", versions_status |-> 200,
                                     versions |-> <<MkVersion(1)>>]>>]])

\* An account with one repository more than discovery reads
ManyRepos ==
    [repos   |-> [name \in {RepoName(n) : n \in 1..(discovery_limit + 1)} |->
                     [EmptyRepo EXCEPT !.pulls = <<MkPr(1, "main")>>]],
     orgs    |-> NoPackages,
     account |-> [n \in 1..(discovery_limit + 1) |-> RepoName(n)]]

Scenarios ==
    { \* discovery over the account with many repositories
      [config   |-> [token |-> Token, repos |-> <<>>, branches |-> <<>>],
       upstream |-> ManyRepos],
      \* explicit list: one repository of that account and one that is gone
      [config   |-> [token |-> Token, repos |-> <<RepoName(1), "Org/gone">>,
                     branches |-> <<>>],
       upstream |-> ManyRepos],
      \* one item of every kind, workflow runs of every conclusion
      [config   |-> [token |-> Token, repos |-> <<>>, branches |-> <<"main">>],
       upstream |-> EveryKind],
      \* one more pull request than the cap, explicit repository list
      [config   |-> [token |-> Token, repos |-> <<"Org/r">>, branches |-> <<>>],
       upstream |-> OneRepo([EmptyRepo EXCEPT
                                !.pulls = [i \in 1..(limit + 1) |-> MkPr(i, "main")]],
                            NoPackages)],
      \* two allowlisted branches, `limit` commits on one and one more on the other
      [config   |-> [token |-> Token, repos |-> <<>>, branches |-> <<"main", "dev">>],
       upstream |-> OneRepo([EmptyRepo EXCEPT
                                !.commits =
                                    [b \in {"main", "dev"} |->
                                        IF b = "main"
                                        THEN [i \in 1..limit |-> MkCommit("main", i)]
                                        ELSE <<MkCommit("dev", 1)>>]],
                            NoPackages)],
      \* container packages of the organisation
      [config   |-> [token |-> Token, repos |-> <<"Org/r">>, branches |-> <<>>],
       upstream |-> OneRepo(EmptyRepo,
                            [o \in {"Org"} |->
                                [status_code |-> 200,
                                 package_list |->
                                     [n \in 1..((limit \div versions_limit) + 1) |->
                                         MkPackage(n)]]])],
      \* allowlist main; pull requests, runs and commits on main and on dev
      [config   |-> [token |-> Token, repos |-> <<>>, branches |-> <<"main">>],
       upstream |-> OneRepo([EmptyRepo EXCEPT
                                !.pulls = <<MkPr(1, "main"), MkPr(2, "dev")>>,
                                !.runs = <<MkRun(1, "dev"), MkRun(2, "main")>>,
                                !.commits =
                                    [b \in {"main", "dev"} |->
                                        IF b = "main" THEN <<MkCommit("main", 1)>>
                                        ELSE <<MkCommit("dev", 1), MkCommit("main", 1)>>]],
                            NoPackages)] }

\* Connection 1 is the scenario's connection; connection 2 is disabled
ScenarioInit ==
    /\ \E sc \in Scenarios :
          /\ connections = [c \in ConnIds |->
                               [type      |-> "github",
                                config    |-> IF c = 1 THEN sc.config
                                                       ELSE DefaultConnection.config,
                                enabled   |-> (c = 1),
                                last_sync |-> None]]
          /\ upstream = sc.upstream
    /\ store = <<>>
    /\ pc = [w \in Workers |-> "idle"]
    /\ task = [w \in Workers |-> None]
    /\ local = [w \in Workers |-> IdleLocal]
    /\ session = [w \in Workers |-> <<>>]
    /\ result = [w \in Workers |-> NoResult]
    /\ clock = 0
    /\ changes = 0
    /\ synced = [c \in ConnIds |-> FALSE]
    /\ hist = [w \in Workers |-> IdleHist]
    /\ standalone = IdleStandalone

\* sync_all_connections (tasks.py 75-102): poll_connection.delay(connection.id)
\* for every enabled connection; the worker takes the task of connection cid
sync_all_connections(w, cid) ==
    /\ pc[w] = "idle"
    /\ FindEnabledConnection(connections, cid) # <<>>
    /\ pc' = [pc EXCEPT ![w] = "queued"]
    /\ task' = [task EXCEPT ![w] = cid]
    /\ UNCHANGED <<standalone, connections, store, upstream, local, session, result, clock,
                   changes, synced, hist>>

\* The time of a call; the clock of the model stops at MaxRuns
Tick == IF clock < MaxRuns THEN clock + 1 ELSE clock

ScenarioNext ==
    \/ \E cid \in ConnIds : sync_all_connections(1, cid)
    \/ PollLookupAt(1, Tick)
    \/ SyncStart(1)
    \/ Enumerate(1)
    \/ FetchRepo(1, {NoPlan})
    \/ CommitRepo(1)
    \/ FetchReturn(1)
    \/ PollFinish(1)
    \/ TaskEnd(1)

\* The steps of a task that involve no call to the provider
LocalSteps ==
    \/ PollLookupAt(1, Tick)
    \/ CommitRepo(1)
    \/ FetchReturn(1)
    \/ PollFinish(1)
    \/ TaskEnd(1)

\* The periodic task keeps being scheduled and the worker keeps executing the
\* local steps of a task it has started.  Nothing is assumed about the calls
\* to the provider: they block and no timeout is defined for them.
ScenarioSpec ==
    /\ ScenarioInit
    /\ [][ScenarioNext]_vars
    /\ WF_vars(\E cid \in ConnIds : sync_all_connections(1, cid))
    /\ WF_vars(LocalSteps)

----------------------------------------------------------------------------
(* Repositories holding every kind of item, read while detail calls and     *)
(* whole kinds fail.                                                         *)

Rel1 == [id |-> 5, title |-> NULL, tag_name |-> "v1.0", body |-> "Notes",
         draft |-> FALSE, assets |-> <<"app.tar.gz">>]

\* Versions of the container package "app": tagged, with an empty tag list,
\* and without container metadata
PkgApp ==
    [name |-> "app", versions_status |-> 200,
     versions |-> <<[id |-> 1, name |-> "sha256:abc",
                     container |-> <<[tags |-> <<"latest", "v1">>]>>],
                    [id |-> 2, name |-> "sha256:def",
                     container |-> <<[tags |-> <<>>]>>],
                    [id |-> 3, name |-> "sha256:012", container |-> <<>>]>>]

DetailUpstream ==
    [InitialUpstream EXCEPT
        !.repos["Org/a"].releases = <<Rel1>>,
        !.orgs["Org"] = [status_code |-> 200, package_list |-> <<PkgApp>>]]

\* The row that the standalone connector (fetch_and_store_changes, lines
\* 148-190) writes for the pull request of Org/a: it sets no connection_id
StandaloneRow ==
    [NormalizePR([c |-> None, repo |-> "Org/a", branches |-> <<>>,
                  committed |-> <<>>, plan |-> [at |-> "none", exc |-> "none"]],
                 Pr1)
     EXCEPT !.connection_id = None]

DetailChoices ==
    { [token |-> Token, repos |-> <<"Org/a", "Org/b">>, branches |-> <<>>],
      [token |-> Token, repos |-> <<>>, branches |-> <<"main", "dev">>] }

\* Calls fail only in the runs of connection 1
DetailPlans(cid) ==
    IF cid = 1
    THEN {[at |-> "none", exc |-> "none"]}
         \cup {[at |-> site, exc |-> "Exception"] : site \in DetailSites}
         \cup {[at |-> site, exc |-> e] :
                 site \in KindSites, e \in {"GithubException", "Exception"}}
    ELSE {[at |-> "none", exc |-> "none"]}

DetailInit ==
    /\ \E config \in DetailChoices :
          connections = [c \in ConnIds |->
                            [type      |-> "github",
                             config    |-> IF c = 1 THEN config
                                                    ELSE DefaultConnection.config,
                             enabled   |-> TRUE,
                             last_sync |-> None]]
    /\ store \in {<<>>, <<StandaloneRow>>}
    /\ upstream = DetailUpstream
    /\ pc = [w \in Workers |-> "idle"]
    /\ task = [w \in Workers |-> None]
    /\ local = [w \in Workers |-> IdleLocal]
    /\ session = [w \in Workers |-> <<>>]
    /\ result = [w \in Workers |-> NoResult]
    /\ clock = 0
    /\ changes = 0
    /\ synced = [c \in ConnIds |-> FALSE]
    /\ hist = [w \in Workers |-> IdleHist]
    /\ standalone = IdleStandalone

DetailNext ==
    \/ \E cid \in ConnIds : trigger_sync(1, cid)
    \/ PollLookup(1)
    \/ SyncStart(1)
    \/ Enumerate(1)
    \/ FetchRepo(1, DetailPlans(task[1]))
    \/ CommitRepo(1)
    \/ FetchReturn(1)
    \/ PollFinish(1)
    \/ TaskEnd(1)

DetailSpec == DetailInit /\ [][DetailNext]_vars

----------------------------------------------------------------------------
(* The standalone connector: GitHubConnector.fetch_and_store_changes, which *)
(* main.py calls with a database session of its own.                        *)
(*   sctx = [repo, committed, plan]                                         *)
(*   acc  = [staged, fetched, stored, exc, swallowed]                       *)

\* existing = db.query(ChangeEvent).filter(source == "github", event_id == e).first()
StandaloneNeverExisting(rows, e) == FALSE
StandaloneExisting(rows, e) ==
    \E i \in 1..Len(rows) : rows[i].source = "github" /\ rows[i].event_id = e

\* if not existing: ...; db.add(db_event); total_stored += 1
StandaloneStage(acc, sctx, event_id, row) ==
    IF StandaloneExisting(Visible(sctx.committed, acc.staged), event_id) THEN acc
    ELSE [acc EXCEPT !.staged = Append(@, row), !.stored = @ + 1]

\* ChangeEvent(source="github", event_id=..., ...): no connection_id is given
StandalonePR(sctx, pr) ==
    LET filesOk   == ~Raises(sctx, "pr.get_files")
        reviewsOk == ~Raises(sctx, "pr.get_reviews")
    IN  [connection_id |-> None,
         source        |-> "github",
         event_id      |-> "pr-" \o sctx.repo \o "-" \o ToString(pr.number),
         title         |-> "[PR] " \o pr.title,
         description   |-> [text           |-> OrEmpty(pr.body),
                            labels         |-> pr.labels,
                            files_changed  |-> IF filesOk THEN Take(pr.files, files_limit)
                                                          ELSE <<>>,
                            related_events |-> <<>>],
         status        |-> pr.state,
         event_metadata |-> [repository  |-> sctx.repo,
                             pr_number   |-> pr.number,
                             base_branch |-> pr.base,
                             approved_count |->
                                 IF reviewsOk THEN Count(pr.reviews, "APPROVED") ELSE 0,
                             changes_requested_count |->
                                 IF reviewsOk THEN Count(pr.reviews, "CHANGES_REQUESTED")
                                              ELSE 0]]

RECURSIVE StandalonePullsLoop(_, _, _)
StandalonePullsLoop(prs, acc, sctx) ==
    IF prs = <<>> \/ acc.exc # "none" THEN acc
    ELSE LET pr      == Head(prs)
             counted == [acc EXCEPT !.fetched = @ + 1]
         IN  StandalonePullsLoop(Tail(prs),
                                 StandaloneStage(counted, sctx,
                                                 "pr-" \o sctx.repo \o "-"
                                                     \o ToString(pr.number),
                                                 StandalonePR(sctx, pr)),
                                 sctx)

StandaloneFetchPulls(up, acc, sctx) ==
    IF acc.exc # "none" THEN acc
    ELSE IF Raises(sctx, "get_pulls") THEN Raise(acc, sctx)
    ELSE StandalonePullsLoop(Take(up.pulls, limit), acc, sctx)

StandaloneRelease(sctx, rel) ==
    [connection_id |-> None,
     source        |-> "github",
     event_id      |-> "release-" \o sctx.repo \o "-" \o ToString(rel.id),
     title         |-> "[Release] " \o (IF rel.title \in {NULL, ""} THEN rel.tag_name
                                            ELSE rel.title),
     description   |-> [text           |-> OrEmpty(rel.body),
                        assets         |-> rel.assets,
                        related_events |-> <<>>],
     status        |-> IF ~rel.draft THEN "published" ELSE "draft",
     event_metadata |-> [repository |-> sctx.repo, tag_name |-> rel.tag_name]]

RECURSIVE StandaloneReleasesLoop(_, _, _)
StandaloneReleasesLoop(rels, acc, sctx) ==
    IF rels = <<>> \/ acc.exc # "none" THEN acc
    ELSE LET rel     == Head(rels)
             counted == [acc EXCEPT !.fetched = @ + 1]
             eid     == "release-" \o sctx.repo \o "-" \o ToString(rel.id)
             next    == IF StandaloneExisting(Visible(sctx.committed, acc.staged), eid)
                        THEN counted
                        ELSE IF Raises(sctx, "release.get_assets")
                        THEN Raise(counted, sctx)
                        ELSE StandaloneStage(counted, sctx, eid,
                                             StandaloneRelease(sctx, rel))
         IN  StandaloneReleasesLoop(Tail(rels), next, sctx)

StandaloneFetchReleases(up, acc, sctx) ==
    IF acc.exc # "none" THEN acc
    ELSE IF Raises(sctx, "get_releases") THEN Raise(acc, sctx)
    ELSE StandaloneReleasesLoop(Take(up.releases, limit), acc, sctx)

\* status_emoji = {...}.get(run.conclusion, ...)  (lines 289-295)
StandaloneStatusEmoji(conclusion) ==
    CASE conclusion = "success"   -> "ok"
      [] conclusion = "failure"   -> "x"
      [] conclusion = "cancelled" -> "(x)"
      [] conclusion = "skipped"   -> "(/)"
      [] conclusion = "timed_out" -> "clock"
      [] OTHER                    -> "*"

\* for job in jobs: if job.conclusion in [...]: failed_jobs.append({...})
RECURSIVE StandaloneFailedJobs(_)
StandaloneFailedJobs(jobs) ==
    IF jobs = <<>> THEN <<>>
    ELSE (IF Head(jobs).conclusion \in {"failure", "timed_out", "cancelled"}
          THEN <<[name |-> Head(jobs).name, conclusion |-> Head(jobs).conclusion]>>
          ELSE <<>>) \o StandaloneFailedJobs(Tail(jobs))

StandaloneRun(sctx, run) ==
    LET failed_jobs ==
            IF run.conclusion \in {"failure", "timed_out", "cancelled"}
               /\ ~Raises(sctx, "run.jobs")
            THEN StandaloneFailedJobs(run.jobs)
            ELSE <<>>
        duration_seconds ==
            IF run.created_at # None /\ run.updated_at # None
            THEN run.updated_at - run.created_at ELSE None
    IN  [connection_id |-> None,
         source        |-> "github",
         event_id      |-> "workflow-" \o sctx.repo \o "-" \o ToString(run.id),
         title         |-> "[Workflow] " \o StandaloneStatusEmoji(run.conclusion) \o " "
                           \o run.name \o " - " \o run.head_branch,
         description   |-> [text           |-> "Workflow: " \o run.name,
                            labels         |-> <<>>,
                            failed_jobs    |-> failed_jobs,
                            related_events |-> <<>>],
         status        |-> IF run.conclusion # NULL THEN run.conclusion ELSE run.status,
         event_metadata |-> [repository        |-> sctx.repo,
                             branch            |-> run.head_branch,
                             conclusion        |-> run.conclusion,
                             duration_seconds  |-> duration_seconds,
                             failed_jobs_count |-> Len(failed_jobs)]]

RECURSIVE StandaloneRunsLoop(_, _, _)
StandaloneRunsLoop(runs, acc, sctx) ==
    IF runs = <<>> \/ acc.exc # "none" THEN acc
    ELSE LET run     == Head(runs)
             counted == [acc EXCEPT !.fetched = @ + 1]
         IN  StandaloneRunsLoop(Tail(runs),
                                StandaloneStage(counted, sctx,
                                                "workflow-" \o sctx.repo \o "-"
                                                    \o ToString(run.id),
                                                StandaloneRun(sctx, run)),
                                sctx)

\* try: ... except Exception as e: print(...)
StandaloneFetchWorkflows(up, acc, sctx) ==
    IF acc.exc # "none" THEN acc
    ELSE IF Raises(sctx, "get_workflow_runs") THEN Swallow(acc)
    ELSE StandaloneRunsLoop(Take(up.runs, limit), acc, sctx)

StandalonePackage(sctx, pkg) ==
    LET size_value == pkg.size
        base == [registry |-> "ghcr.io", image |-> pkg.name,
                 digest_short |-> IF pkg.digest # "" THEN pkg.digest ELSE "N/A"]
        metadata == IF size_value # None /\ size_value > 0
                    THEN [registry |-> base.registry, image |-> base.image,
                          digest_short |-> base.digest_short,
                          size |-> FormatSize(size_value)]
                    ELSE base
    IN  [connection_id |-> None,
         source        |-> "github",
         event_id      |-> "registry-" \o pkg.name \o "-" \o ToString(pkg.version_id),
         title         |-> "[Image] " \o pkg.name \o ":" \o JoinComma(Take(pkg.tags, 3)),
         description   |-> [text           |-> "Container image pushed to GitHub Container Registry",
                            labels         |-> pkg.tags,
                            metadata       |-> metadata,
                            related_events |-> <<>>],
         status        |-> "published",
         event_metadata |-> [registry   |-> "ghcr.io",
                             package    |-> pkg.package_name,
                             tags       |-> pkg.tags,
                             size_bytes |-> pkg.size,
                             repository |-> sctx.repo]]

RECURSIVE StandalonePkgLoop(_, _, _)
StandalonePkgLoop(packages, acc, sctx) ==
    IF packages = <<>> \/ acc.exc # "none" THEN acc
    ELSE LET pkg     == Head(packages)
             counted == [acc EXCEPT !.fetched = @ + 1]
         IN  StandalonePkgLoop(Tail(packages),
                               StandaloneStage(counted, sctx,
                                               "registry-" \o pkg.name \o "-"
                                                   \o ToString(pkg.version_id),
                                               StandalonePackage(sctx, pkg)),
                               sctx)

\* try: packages = self._fetch_registry_packages(...) ... except Exception: print(...)
StandaloneFetchRegistry(up, orgs, acc, sctx) ==
    IF acc.exc # "none" THEN acc
    ELSE IF Raises(sctx, "registry.request") THEN Swallow(acc)
    ELSE StandalonePkgLoop(fetch_registry_packages(orgs, up.owner, sctx), acc, sctx)

\* The body of  for repo in repos_to_fetch: try: ...  up to db.commit()
StandaloneProcessRepo(up, orgs, sctx) ==
    LET acc0 == [staged |-> <<>>, fetched |-> 0, stored |-> 0, exc |-> "none",
                 swallowed |-> FALSE]
        a1 == StandaloneFetchPulls(up, acc0, sctx)
        a2 == StandaloneFetchReleases(up, a1, sctx)
        a3 == StandaloneFetchWorkflows(up, a2, sctx)
    IN  StandaloneFetchRegistry(up, orgs, a3, sctx)

\* The calls that fail in the runs compared below
EquivPlans ==
    {NoPlan}
    \cup {[at |-> site, exc |-> "Exception"] :
            site \in {"pr.get_files", "pr.get_reviews", "run.jobs"}}
    \cup {[at |-> site, exc |-> e] :
            site \in KindSites \cup {"get_pulls", "get_releases", "release.get_assets"},
            e \in {"GithubException", "Exception"}}

\* Lines 127-137: the repositories to fetch.  self.repos is the list that the
\* connection of the session-based path is configured with.
StandaloneEnumerate ==
    /\ standalone.pc = "idle"
    /\ LET repos == connections[1].config.repos
       IN  \/ /\ repos # <<>>
              \* get_repo raises GithubException for the names outside `ok`
              /\ \E ok \in SUBSET Range(repos) :
                    standalone' = [standalone EXCEPT
                        !.repos_to_fetch = SelectNames(repos, ok \cap DOMAIN upstream.repos),
                        !.idx = 1, !.accessible = ok, !.pc = "fetch"]
           \/ /\ repos = <<>>
              /\ standalone' = [standalone EXCEPT
                    !.repos_to_fetch = Take(upstream.account, discovery_limit),
                    !.idx = 1, !.pc = "fetch"]
           \/ \* get_user().get_repos() raises: finally: db.close()
              standalone' = [standalone EXCEPT !.pc = "raised"]
    /\ UNCHANGED <<connections, store, upstream, pc, task, local, session, result,
                   clock, changes, synced, hist>>

\* One pass of  for repo in repos_to_fetch  (lines 139-414): the body, then
\* db.commit(), or db.rollback() and continue on a GithubException; any other
\* exception leaves through  finally: db.close()
StandaloneFetchRepo ==
    /\ standalone.pc = "fetch"
    /\ standalone.idx <= Len(standalone.repos_to_fetch)
    /\ \E plan \in EquivPlans :
          LET repo == standalone.repos_to_fetch[standalone.idx]
              sctx == [repo |-> repo, committed |-> standalone.db, plan |-> plan]
              r    == StandaloneProcessRepo(upstream.repos[repo], upstream.orgs, sctx)
              counted == [standalone EXCEPT !.total_fetched = @ + r.fetched,
                                            !.total_stored = @ + r.stored,
                                            !.plans = Append(@, plan)]
          IN  standalone' =
                  IF r.exc = "none"
                  THEN [counted EXCEPT !.db = @ \o r.staged, !.idx = @ + 1]
                  ELSE IF r.exc = "GithubException"
                  THEN [counted EXCEPT !.idx = @ + 1]
                  ELSE [counted EXCEPT !.pc = "raised"]
    /\ UNCHANGED <<connections, store, upstream, pc, task, local, session, result,
                   clock, changes, synced, hist>>

\* return {"fetched": total_fetched, "stored": total_stored}
StandaloneReturn ==
    /\ standalone.pc = "fetch"
    /\ standalone.idx > Len(standalone.repos_to_fetch)
    /\ standalone' = [standalone EXCEPT
                         !.result = [fetched |-> standalone.total_fetched,
                                     stored  |-> standalone.total_stored],
                         !.pc = "returned"]
    /\ UNCHANGED <<connections, store, upstream, pc, task, local, session, result,
                   clock, changes, synced, hist>>

\* The call that fails in pass idx of the session-based run: the one that
\* failed in the same pass of the standalone run
RecordedPlan(idx) ==
    IF idx \in 1..Len(standalone.plans) THEN {standalone.plans[idx]} ELSE {NoPlan}

EquivChoices ==
    { [token |-> Token, repos |-> <<>>, branches |-> <<>>],
      [token |-> Token, repos |-> <<"Org/a", "Org/b">>, branches |-> <<>>],
      [token |-> Token, repos |-> <<"Org/b", "Org/a", "Org/b">>, branches |-> <<>>] }

\* Both paths start from an empty database of their own, with no branches
\* allowlist, the same repository list and the same upstream data
EquivInit ==
    /\ \E config \in EquivChoices :
          connections = [c \in ConnIds |->
                            [type      |-> "github",
                             config    |-> IF c = 1 THEN config
                                                    ELSE DefaultConnection.config,
                             enabled   |-> TRUE,
                             last_sync |-> None]]
    /\ upstream \in {DetailUpstream, EveryKind}
    /\ store = <<>>
    /\ pc = [w \in Workers |-> "idle"]
    /\ task = [w \in Workers |-> None]
    /\ local = [w \in Workers |-> IdleLocal]
    /\ session = [w \in Workers |-> <<>>]
    /\ result = [w \in Workers |-> NoResult]
    /\ clock = 0
    /\ changes = 0
    /\ synced = [c \in ConnIds |-> FALSE]
    /\ hist = [w \in Workers |-> IdleHist]
    /\ standalone = IdleStandalone

\* The standalone run, then the session-based run of connection 1 in which
\* the same calls fail
EquivNext ==
    \/ StandaloneEnumerate
    \/ StandaloneFetchRepo
    \/ StandaloneReturn
    \/ (standalone.pc \in {"returned", "raised"} /\ trigger_sync(1, 1))
    \/ PollLookup(1)
    \/ SyncStart(1)
    \/ Enumerate(1)
    \/ FetchRepo(1, RecordedPlan(local[1].idx))
    \/ CommitRepo(1)
    \/ FetchReturn(1)
    \/ PollFinish(1)

EquivSpec == EquivInit /\ [][EquivNext]_vars

----------------------------------------------------------------------------
(* Properties *)

HasKey(rows, c, e) ==
    \E i \in 1..Len(rows) : rows[i].connection_id = c /\ rows[i].event_id = e

KeyCount(rows, c, e) ==
    Cardinality({i \in 1..Len(rows) :
                    rows[i].connection_id = c /\ rows[i].event_id = e})

ReturnedCounts(w) ==
    /\ result[w].status = "success"
    /\ {"fetched", "stored"} \subseteq DOMAIN result[w].result

\* C1: with sync runs executed one after the other, the store never holds two
\* ChangeEvent rows with the same (connection_id, event_id).
C1_UniqueKeys ==
    \A i, j \in 1..Len(store) :
        (store[i].connection_id = store[j].connection_id
            /\ store[i].event_id = store[j].event_id) => i = j

\* A second run of the same connection has finished, and the store holds the
\* commit that is reachable from both allowlisted branches.
C1_Witness ==
    /\ pc[1] = "done"
    /\ ReturnedCounts(1)
    /\ hist[1].lastSyncBefore # None
    /\ result[1].result.fetched > 0
    /\ HasKey(store, task[1], commit_event_id("Org/a", "c0ffee"))

\* C2: a run that starts after a failure-free run of the same connection, with
\* upstream data and configuration unchanged, stores nothing: its stored
\* counter stays 0, it stages nothing and the store stays as it was.
C2_Idempotent ==
    \A w \in Workers :
        hist[w].cleanStart =>
            /\ store = hist[w].storeBefore
            /\ session[w] = <<>>
            /\ local[w].total_stored = 0
            /\ (pc[w] = "done" /\ ReturnedCounts(w) => result[w].result.stored = 0)

\* The second run found upstream items, all of them already stored.
C2_Witness ==
    /\ pc[1] = "done"
    /\ hist[1].cleanStart
    /\ ReturnedCounts(1)
    /\ result[1].result.fetched > 0
    /\ store # <<>>

\* C3: when two runs of the same connection overlap and both find the same
\* upstream item new, exactly one row with that (connection_id, event_id) ends
\* up stored.
C3_RaceSafety ==
    \A w1, w2 \in Workers :
        (w1 # w2 /\ pc[w1] = "done" /\ pc[w2] = "done" /\ task[w1] = task[w2]) =>
            \A i \in 1..Len(hist[w1].completedRows) :
                KeyCount(store, hist[w1].completedRows[i].connection_id,
                         hist[w1].completedRows[i].event_id) = 1

\* C4: the store does not let two overlapping runs both commit an insert for
\* the same (connection_id, event_id).
C4_StoreEnforcesUniqueness ==
    \A w1, w2 \in Workers :
        w1 # w2 =>
            \A i \in 1..Len(hist[w1].completedRows) :
                ~HasKey(hist[w2].completedRows,
                        hist[w1].completedRows[i].connection_id,
                        hist[w1].completedRows[i].event_id)

\* C5: when test_connection fails, the run is reported with status error and
\* last_sync of the connection is left as it was.
C5_ConnectivityFailureIsError ==
    \A w \in Workers :
        (pc[w] = "done" /\ hist[w].testFailed) =>
            /\ result[w].status = "error"
            /\ connections[task[w]].last_sync = hist[w].lastSyncBefore

\* C6: a run reported as success carries fetched and stored counts, and a run
\* that ended in a configuration error (no token) or a connectivity error is
\* never reported as success.
C6_SuccessCarriesCounts ==
    \A w \in Workers :
        (pc[w] = "done" /\ result[w].status = "success") =>
            /\ {"fetched", "stored"} \subseteq DOMAIN result[w].result
            /\ ~hist[w].noToken
            /\ ~hist[w].testFailed

\* C7: no exception raised while reading a repository, whatever its class,
\* aborts the run: it is caught and the loop goes on with the next repository.
C7_AnyExceptionIsolated ==
    \A w \in Workers : hist[w].escaped = "none"

\* What the per-repository handler does give: a GithubException never aborts
\* the run, and when fetch_with_session returns after one, every repository of
\* the list has been visited.  Only an exception of another class escapes.
GithubExceptionIsolated ==
    \A w \in Workers :
        /\ hist[w].escaped \in {"none", "Exception"}
        /\ (hist[w].skipped # <<>> /\ pc[w] \in {"returned", "done"}
              /\ hist[w].escaped = "none")
            => hist[w].visited = Len(local[w].repos_to_fetch)

\* The first repository raised a GithubException and the second one was still
\* processed and committed.
GithubExceptionSkipsRepo ==
    /\ pc[1] = "done"
    /\ ReturnedCounts(1)
    /\ hist[1].skipped = <<1>>
    /\ hist[1].visited = 2
    /\ hist[1].completedRows # <<>>

\* C8: when the loop is at the start of a repository nothing of the earlier
\* repositories is left uncommitted, and every event staged for a repository
\* whose processing completed is in the store from then on, whatever happens
\* to a later repository.
C8_CommitPerTarget ==
    \A w \in Workers :
        /\ pc[w] = "fetch" => session[w] = <<>>
        /\ \A i \in 1..Len(hist[w].completedRows) :
              HasKey(store, hist[w].completedRows[i].connection_id,
                     hist[w].completedRows[i].event_id)

\* A later repository failed (rolled back, or aborted the run) after an
\* earlier one had been committed.
C8_Witness ==
    /\ pc[1] = "done"
    /\ hist[1].completedRows # <<>>
    /\ hist[1].escaped = "Exception"
    /\ hist[1].abortedStaged # <<>>

\* C9: when an exception escapes the processing of a repository, the caller
\* gets status error with a message, no event staged for that repository is
\* stored, and the events committed for the earlier repositories are stored.
C9_UnhandledException ==
    \A w \in Workers :
        (pc[w] = "done" /\ hist[w].escaped # "none") =>
            /\ result[w].status = "error"
            /\ "error" \in DOMAIN result[w]
            /\ \A i \in 1..Len(hist[w].abortedStaged) :
                  ~HasKey(store, hist[w].abortedStaged[i].connection_id,
                          hist[w].abortedStaged[i].event_id)
            /\ \A i \in 1..Len(hist[w].completedRows) :
                  HasKey(store, hist[w].completedRows[i].connection_id,
                         hist[w].completedRows[i].event_id)

\* The second repository raised after staging an event, the first had been
\* committed.
C9_Witness ==
    /\ pc[1] = "done"
    /\ hist[1].escaped # "none"
    /\ hist[1].visited = 2
    /\ Len(hist[1].abortedStaged) >= 1
    /\ Len(hist[1].completedRows) >= 1

\* C10: poll_connection for a connection id without a row, or whose enabled
\* flag is false, returns skipped with a reason, calls the provider not once,
\* stores nothing and leaves last_sync as it was.
C10_DisabledSkip ==
    \A w \in Workers :
        (pc[w] = "done" /\ ~hist[w].wasEnabled) =>
            /\ result[w].status = "skipped"
            /\ "reason" \in DOMAIN result[w]
            /\ result[w].reason # ""
            /\ ~hist[w].netCalls
            /\ store = hist[w].storeBefore
            /\ (task[w] \in ConnIds =>
                    connections[task[w]].last_sync = hist[w].lastSyncBefore)

\* A connection that was synced before is polled while disabled.
C10_Witness ==
    /\ pc[1] = "done"
    /\ task[1] \in ConnIds
    /\ ~connections[task[1]].enabled
    /\ ~hist[1].wasEnabled
    /\ store # <<>>

\* C11: a run of an enabled connection whose type has no connector module
\* returns status error with reason "module not found", makes no provider
\* call, stores nothing and leaves last_sync as it was.
C11_ModuleNotFound ==
    \A w \in Workers :
        (pc[w] = "done" /\ hist[w].wasEnabled /\ task[w] \in ConnIds
            /\ connections[task[w]].type \notin RegisteredTypes) =>
            /\ result[w].status = "error"
            /\ "reason" \in DOMAIN result[w]
            /\ result[w].reason = "module not found"
            /\ ~hist[w].netCalls
            /\ store = hist[w].storeBefore
            /\ session[w] = <<>>
            /\ connections[task[w]].last_sync = hist[w].lastSyncBefore

\* An enabled connection of a type without connector has been polled.
C11_Witness ==
    /\ pc[1] = "done"
    /\ task[1] \in ConnIds
    /\ hist[1].wasEnabled
    /\ connections[task[1]].type = "jira"
    /\ result[1].status = "error"
    /\ store # <<>>

\* C12: when the config of the connection has no token (key missing or value
\* empty), sync_github returns before any provider call: test_connection is
\* not called, no repository is visited, nothing is staged or stored.
C12_NoTokenNoCalls ==
    \A w \in Workers :
        (pc[w] \in {"returned", "done"} /\ hist[w].wasEnabled /\ task[w] \in ConnIds
            /\ connections[task[w]].type \in RegisteredTypes
            /\ ("token" \notin DOMAIN connections[task[w]].config
                  \/ connections[task[w]].config.token = "")) =>
            /\ ~hist[w].netCalls
            /\ ~hist[w].tested
            /\ hist[w].visited = 0
            /\ local[w].repos_to_fetch = <<>>
            /\ session[w] = <<>>
            /\ store = hist[w].storeBefore

\* sync_github has returned for a connection whose config has no token key.
C12_Witness ==
    /\ pc[1] = "returned"
    /\ "token" \notin DOMAIN connections[task[1]].config
    /\ hist[1].noToken
    /\ "error" \in DOMAIN local[1].sync_result

\* C13: repositories are enumerated and fetched only after test_connection was
\* called and succeeded; when it fails no repository is enumerated, no item is
\* fetched and no event is staged or stored.
C13_TestBeforeFetch ==
    \A w \in Workers :
        /\ (pc[w] \in {"enumerate", "fetch", "commit"}
              \/ local[w].repos_to_fetch # <<>>
              \/ hist[w].visited > 0
              \/ local[w].total_fetched > 0)
            => (hist[w].tested /\ ~hist[w].testFailed)
        /\ hist[w].testFailed =>
            /\ local[w].repos_to_fetch = <<>>
            /\ hist[w].visited = 0
            /\ local[w].total_fetched = 0
            /\ session[w] = <<>>
            /\ store = hist[w].storeBefore

\* test_connection returned False for a connection that has stored events and
\* whose upstream holds items: the run ended without visiting a repository.
C13_Witness ==
    /\ pc[1] = "done"
    /\ hist[1].testFailed
    /\ result[1].status = "success"
    /\ "error" \in DOMAIN result[1].result
    /\ store # <<>>

\* C14: when fetch_with_session returns its counts, poll_connection sets
\* last_sync of the connection to the time of the run, also when repositories
\* were skipped after a GithubException or a kind was given up.
C14_LastSyncOnCompletion ==
    \A w \in Workers :
        (pc[w] = "done" /\ ReturnedCounts(w)) =>
            /\ connections[task[w]].last_sync = clock
            /\ connections[task[w]].last_sync # hist[w].lastSyncBefore

\* A run in which the first repository was rolled back and skipped completed
\* and moved last_sync forward from an earlier run's value.
C14_Witness ==
    /\ pc[1] = "done"
    /\ ReturnedCounts(1)
    /\ hist[1].skipped # <<>>
    /\ hist[1].lastSyncBefore # None
    /\ connections[task[1]].last_sync > hist[1].lastSyncBefore

\* C15: a run that poll_connection reports as skipped or error leaves last_sync
\* of its connection as it was before the run.
C15_LastSyncOnlyOnSuccess ==
    \A w \in Workers :
        (pc[w] = "done" /\ task[w] \in ConnIds
            /\ result[w].status \in {"skipped", "error"}) =>
            connections[task[w]].last_sync = hist[w].lastSyncBefore

\* A connection synced before ends a run with status error.
C15_Witness ==
    /\ pc[1] = "done"
    /\ task[1] \in ConnIds
    /\ result[1].status = "error"
    /\ hist[1].lastSyncBefore # None
    /\ connections[task[1]].last_sync = hist[1].lastSyncBefore

IsPrefix(s, t) == Len(s) <= Len(t) /\ SubSeq(t, 1, Len(s)) = s

\* C16: no step of a sync run modifies or deletes a stored ChangeEvent: the
\* store only grows at its end, so a row keeps the field values captured when
\* it was inserted, whatever happens to the upstream item afterwards.
C16_InsertOnly == [][IsPrefix(store, store')]_vars

\* A run completed after the pull request was closed upstream, and the stored
\* row still has the status captured when it was open.
C16_Witness ==
    /\ pc[1] = "done"
    /\ ReturnedCounts(1)
    /\ result[1].result.fetched > 0
    /\ upstream.repos["Org/a"].pulls[1].state = "closed"
    /\ hist[1].storeBefore # <<>>
    /\ \E i \in 1..Len(store) :
          /\ store[i].event_id = pr_event_id("Org/a", 1)
          /\ store[i].connection_id = task[1]
          /\ store[i].status = "open"

\* C17: every finished poll_connection has exactly one of the outcomes success,
\* skipped or error, whatever the state of the connection and whatever the
\* connector raised; an unfinished one has no outcome yet.
C17_ThreeOutcomes ==
    \A w \in Workers :
        /\ pc[w] = "done" => result[w].status \in {"success", "skipped", "error"}
        /\ pc[w] # "done" => result[w] = NoResult

\* test_connection raised an exception that is no GithubException.
C17_Witness ==
    /\ pc[1] = "done"
    /\ hist[1].testFailed
    /\ result[1].status = "error"
    /\ "error" \in DOMAIN result[1]

\* C18: in the pass over one repository every kind (pull requests, releases,
\* workflow runs, commits, registry image versions) adds at most `limit` items
\* to the fetched counter.
C18_PerKindCap ==
    \A w \in Workers :
        \A kind \in DOMAIN hist[w].kinds : hist[w].kinds[kind] <= limit

NoFailure == \A w \in Workers : ~hist[w].failed

RunCompleted == pc[1] = "done" /\ task[1] = 1 /\ ReturnedCounts(1)

\* The repositories a failure-free run of connection c reads
ReposRead(c) ==
    LET repos == connections[c].config.repos
    IN  IF repos # <<>> THEN Range(repos) \cap DOMAIN upstream.repos
        ELSE Range(Take(upstream.account, discovery_limit))

\* Every pull request of the repositories read by connection 1 that the branch
\* filter lets through is stored
BacklogStored ==
    \A name \in ReposRead(1) :
        \A i \in 1..Len(upstream.repos[name].pulls) :
            LET pr == upstream.repos[name].pulls[i]
                branches == connections[1].config.branches
            IN  (branches = <<>> \/ Contains(branches, pr.base))
                    => HasKey(store, 1, pr_event_id(name, pr.number))

\* C19: with unchanging upstream data, no failure in any run and runs that
\* keep completing, every upstream item is eventually stored, also the items
\* that were beyond the cap in the first run.
C19_CatchUp == ([]NoFailure /\ []<>RunCompleted) => <>BacklogStored

\* Number of commits the loop reads from the branches `names` of a repository
RECURSIVE CommitsRead(_, _)
CommitsRead(names, up) ==
    IF names = {} THEN 0
    ELSE LET b == CHOOSE x \in names : TRUE
         IN  Min(Len(up.commits[b]), limit) + CommitsRead(names \ {b}, up)

\* Pull requests and workflow runs of the repository just visited are counted
\* as fetched whatever their branch, and none from outside the allowlist is
\* staged or stored; no commit that is only on branches outside the allowlist
\* is staged or stored.
FilteredNotStored(w, commitsCounted(_, _)) ==
    LET c        == task[w]
        branches == connections[c].config.branches
        allowed  == Range(branches)
        up       == upstream.repos[hist[w].repo]
        rows     == store \o session[w]
    IN  (hist[w].visited > 0 /\ ~hist[w].failed /\ branches # <<>>) =>
            /\ hist[w].kinds.pulls = Min(Len(up.pulls), limit)
            /\ hist[w].kinds.runs = Min(Len(up.runs), limit)
            /\ hist[w].kinds.commits = CommitsRead(commitsCounted(up, allowed), up)
            /\ \A i \in 1..Len(up.pulls) :
                  up.pulls[i].base \notin allowed =>
                      ~HasKey(rows, c, pr_event_id(hist[w].repo, up.pulls[i].number))
            /\ \A i \in 1..Len(up.runs) :
                  up.runs[i].head_branch \notin allowed =>
                      ~HasKey(rows, c, workflow_event_id(hist[w].repo, up.runs[i].id))
            /\ \A b \in DOMAIN up.commits \ allowed :
                  \A i \in 1..Len(up.commits[b]) :
                      (\A a \in allowed \cap DOMAIN up.commits :
                            ~Contains(up.commits[a], up.commits[b][i]))
                        => ~HasKey(rows, c,
                                   commit_event_id(hist[w].repo, up.commits[b][i].sha))
            /\ local[w].total_stored = Len(hist[w].completedRows) + Len(session[w])

AllowlistedBranches(up, allowed) == allowed \cap DOMAIN up.commits

AllBranches(up, allowed) == DOMAIN up.commits

\* C20 (as stated): with a non-empty allowlist no pull request, workflow run or
\* commit from a branch outside the allowlist is stored, and each of them,
\* commits included, is counted in the fetched counter.
C20_OutsideCountedAsFetched ==
    \A w \in Workers : FilteredNotStored(w, AllBranches)

\* C20 (amended): with a non-empty allowlist no pull request, workflow run or
\* commit from a branch outside the allowlist is stored; pull requests and
\* workflow runs from outside are counted as fetched and not as stored, while
\* commits are read from the allowlisted branches only, so a commit from
\* another branch is neither fetched nor counted.
C20_BranchFilter ==
    \A w \in Workers : FilteredNotStored(w, AllowlistedBranches)

\* A run with allowlist main over a repository with a pull request, a run and
\* a commit on dev has completed: it fetched more than it stored.
C20_Witness ==
    /\ pc[1] = "done"
    /\ ReturnedCounts(1)
    /\ connections[task[1]].config.branches = <<"main">>
    /\ \E i \in 1..Len(upstream.repos[hist[1].repo].pulls) :
          upstream.repos[hist[1].repo].pulls[i].base = "dev"
    /\ \E i \in 1..Len(upstream.repos[hist[1].repo].runs) :
          upstream.repos[hist[1].repo].runs[i].head_branch = "dev"
    /\ result[1].result.stored > 0
    /\ result[1].result.fetched > result[1].result.stored

RowsWithKey(rows, c, e) ==
    {rows[i] : i \in {j \in 1..Len(rows) :
                        rows[j].connection_id = c /\ rows[j].event_id = e}}

\* Item with key e is new in the run of worker w and passes the branch filter
NewInRun(w, e) == ~HasKey(hist[w].storeBefore, task[w], e)

\* C21: when an optional detail call (pull request files, pull request
\* reviews, jobs of a failed run, commit files) raises while a repository is
\* read, the repository is neither skipped nor the run aborted, and every new
\* item of that kind is staged or stored with the field at its empty default
\* and its other fields as they are upstream.
C21_GracefulDegradation ==
    \A w \in Workers :
        \A k \in 1..Len(hist[w].tolerated) :
            LET t    == hist[w].tolerated[k]
                c    == task[w]
                up   == upstream.repos[t.repo]
                rows == store \o session[w]
                allowed == Range(connections[c].config.branches)
                passes(ref) == allowed = {} \/ ref \in allowed
            IN  t.at \in DetailSites =>
                /\ hist[w].escaped = "none"
                /\ ~Contains(hist[w].skipped, t.idx)
                /\ \A i \in 1..Len(up.pulls) :
                      LET pr == up.pulls[i]
                          e  == pr_event_id(t.repo, pr.number)
                      IN  (t.at \in {"pr.get_files", "pr.get_reviews"}
                              /\ passes(pr.base) /\ NewInRun(w, e)) =>
                          /\ RowsWithKey(rows, c, e) # {}
                          /\ \A row \in RowsWithKey(rows, c, e) :
                                IF t.at = "pr.get_files"
                                THEN /\ row.description.files_changed = <<>>
                                     /\ row.event_metadata.approved_count
                                            = Count(pr.reviews, "APPROVED")
                                ELSE /\ row.event_metadata.approved_count = 0
                                     /\ row.event_metadata.changes_requested_count = 0
                                     /\ row.description.files_changed
                                            = Take(pr.files, files_limit)
                /\ \A i \in 1..Len(up.runs) :
                      LET run == up.runs[i]
                          e   == workflow_event_id(t.repo, run.id)
                      IN  (t.at = "run.jobs" /\ passes(run.head_branch)
                              /\ NewInRun(w, e)) =>
                          /\ RowsWithKey(rows, c, e) # {}
                          /\ \A row \in RowsWithKey(rows, c, e) :
                                /\ row.description.failed_jobs = <<>>
                                /\ row.event_metadata.failed_jobs_count = 0
                                /\ row.status = run.conclusion
                /\ \A b \in allowed \cap DOMAIN up.commits :
                      \A i \in 1..Len(up.commits[b]) :
                          LET e == commit_event_id(t.repo, up.commits[b][i].sha)
                          IN  (t.at = "commit.files" /\ NewInRun(w, e)) =>
                              /\ RowsWithKey(rows, c, e) # {}
                              /\ \A row \in RowsWithKey(rows, c, e) :
                                    /\ row.description.files_changed = <<>>
                                    /\ row.description.text = up.commits[b][i].message

\* A run in which the file list of the pull request could not be read has
\* completed and the pull request is stored without files.
C21_Witness ==
    /\ pc[1] = "done"
    /\ ReturnedCounts(1)
    /\ \E k \in 1..Len(hist[1].tolerated) :
          /\ hist[1].tolerated[k].at = "pr.get_files"
          /\ hist[1].tolerated[k].repo = "Org/a"
    /\ \E row \in RowsWithKey(store, task[1], pr_event_id("Org/a", 1)) :
          /\ row.description.files_changed = <<>>
          /\ row.event_metadata.approved_count = 1
    /\ NewInRun(1, pr_event_id("Org/a", 1))
    /\ upstream.repos["Org/a"].pulls[1].files # <<>>

\* C22: without an explicit repository list a run reads at most
\* discovery_limit repositories, however many the account has.
C22_BoundedDiscovery ==
    \A w \in Workers :
        (task[w] \in ConnIds /\ connections[task[w]].config.repos = <<>>) =>
            /\ Len(local[w].repos_to_fetch) <= discovery_limit
            /\ hist[w].visited <= discovery_limit
            /\ \A i \in 1..Len(store \o session[w]) :
                  (store \o session[w])[i].connection_id = task[w] =>
                      (store \o session[w])[i].event_metadata.repository
                          \in Range(Take(upstream.account, discovery_limit))

\* A discovery run over an account with more repositories than the cap has
\* completed after reading exactly discovery_limit of them.
C22_Witness ==
    /\ pc[1] = "done"
    /\ ReturnedCounts(1)
    /\ connections[task[1]].config.repos = <<>>
    /\ Len(upstream.account) > discovery_limit
    /\ hist[1].visited = discovery_limit
    /\ result[1].result.stored = discovery_limit

\* C23: with an explicit repository list the run reads only repositories that
\* are named in the list and accessible; the account's repositories are never
\* read in their place, also when no listed repository is accessible.
C23_ExplicitListOnly ==
    \A w \in Workers :
        (task[w] \in ConnIds /\ connections[task[w]].config.repos # <<>>) =>
            LET repos == connections[task[w]].config.repos
                rows  == store \o session[w]
            IN  /\ Range(local[w].repos_to_fetch)
                      \subseteq (Range(repos) \cap hist[w].accessible)
                /\ hist[w].visited > 0 => hist[w].repo \in Range(repos)
                /\ hist[w].visited <= Len(repos)
                /\ \A i \in 1..Len(rows) :
                      rows[i].connection_id = task[w] =>
                          rows[i].event_metadata.repository \in Range(repos)

\* No listed repository was accessible: the run completed with nothing read,
\* although the account has repositories.
C23_Witness ==
    /\ pc[1] = "done"
    /\ ReturnedCounts(1)
    /\ connections[task[1]].config.repos # <<>>
    /\ hist[1].accessible = {}
    /\ hist[1].visited = 0
    /\ result[1].result.fetched = 0
    /\ Len(upstream.account) > 0

\* C24: after a failure-free run of a connection every pull request of the
\* repositories it reads (and that its branch filter lets through) is stored
\* under that connection, whatever is stored for the same upstream item under
\* another connection or under no connection.
C24_DedupPerConnection ==
    \A c \in ConnIds :
        synced[c] =>
            \A name \in ReposRead(c) :
                \A i \in 1..Len(upstream.repos[name].pulls) :
                    LET pr == upstream.repos[name].pulls[i]
                        branches == connections[c].config.branches
                    IN  (branches = <<>> \/ Contains(branches, pr.base))
                            => KeyCount(store, c, pr_event_id(name, pr.number)) = 1

\* The same pull request is stored once by the standalone connector (no
\* connection) and once for each of the two connections.
C24_Witness ==
    /\ HasKey(store, None, pr_event_id("Org/a", 1))
    /\ HasKey(store, 1, pr_event_id("Org/a", 1))
    /\ HasKey(store, 2, pr_event_id("Org/a", 1))
    /\ synced[1]
    /\ synced[2]

PrVariants(pr) ==
    {[pr EXCEPT !.state = st, !.title = ti, !.reviews = <<>>] :
        st \in {"open", "closed"}, ti \in {pr.title, "Renamed"}}

ReleaseVariants(rel) ==
    {[rel EXCEPT !.title = ti, !.draft = dr] :
        ti \in {NULL, "Renamed"}, dr \in BOOLEAN}

RunVariants(run) ==
    {[run EXCEPT !.conclusion = co, !.updated_at = ts] :
        co \in {NULL, "success", "failure"}, ts \in {None, run.created_at + 1}}

CommitVariants(commit) ==
    {[commit EXCEPT !.message = msg] : msg \in {commit.message, <<"Amended">>}}

PackageVariants(pkg) ==
    {[pkg EXCEPT !.tags = tg, !.digest = dg] :
        tg \in {pkg.tags, <<"stable">>}, dg \in {pkg.digest, ""}}

\* Event ids of the rows in `rows` that were made from pull request `number`
\* or from commit `sha` of repository `name`
KeysOfPr(rows, name, number) ==
    {rows[j].event_id : j \in {k \in 1..Len(rows) :
        /\ "pr_number" \in DOMAIN rows[k].event_metadata
        /\ rows[k].event_metadata.pr_number = number
        /\ rows[k].event_metadata.repository = name}}

KeysOfCommit(rows, name, sha) ==
    {rows[j].event_id : j \in {k \in 1..Len(rows) :
        /\ "sha" \in DOMAIN rows[k].event_metadata
        /\ rows[k].event_metadata.sha = sha
        /\ rows[k].event_metadata.repository = name}}

\* C25: the event_id of an item depends only on its kind, its repository (or
\* image) name and its upstream identifier. Whenever a pass has normalized the
\* items of a repository, normalizing each of them again, for either
\* connection, from any branch, with its mutable fields changed and with its
\* detail call failing, gives the event_id of the first normalization; and
\* all rows ever staged or stored for a pull request or a commit, by any run,
\* carry that one event_id.
C25_DeterministicKey ==
    \A w \in Workers :
        /\ pc[w] = "commit" =>
            LET name == hist[w].repo
                up   == upstream.repos[name]
                ctx0 == [c |-> task[w], repo |-> name,
                         branches |-> connections[task[w]].config.branches,
                         committed |-> hist[w].storeBefore, plan |-> NoPlan]
                ctx1(c, at) == [c |-> c, repo |-> name,
                                branches |-> connections[c].config.branches,
                                committed |-> store,
                                plan |-> IF at = "none" THEN NoPlan
                                         ELSE [at |-> at, exc |-> "Exception"]]
                packages == fetch_registry_packages(upstream.orgs, up.owner, ctx0)
            IN  /\ \A i \in 1..Len(up.pulls) :
                      \A v \in PrVariants(up.pulls[i]) :
                          \A c \in ConnIds :
                              \A at \in {"none", "pr.get_files", "pr.get_reviews"} :
                                  NormalizePR(ctx1(c, at), v).event_id
                                      = NormalizePR(ctx0, up.pulls[i]).event_id
                /\ \A i \in 1..Len(up.releases) :
                      \A v \in ReleaseVariants(up.releases[i]) :
                          \A c \in ConnIds :
                              NormalizeRelease(ctx1(c, "none"), v).event_id
                                  = NormalizeRelease(ctx0, up.releases[i]).event_id
                /\ \A i \in 1..Len(up.runs) :
                      \A v \in RunVariants(up.runs[i]) :
                          \A c \in ConnIds :
                              \A at \in {"none", "run.jobs"} :
                                  NormalizeRun(ctx1(c, at), v).event_id
                                      = NormalizeRun(ctx0, up.runs[i]).event_id
                /\ \A b \in DOMAIN up.commits :
                      \A i \in 1..Len(up.commits[b]) :
                          \A v \in CommitVariants(up.commits[b][i]) :
                              \A c \in ConnIds :
                                  \A b2 \in DOMAIN up.commits :
                                      \A at \in {"none", "commit.files"} :
                                          NormalizeCommit(ctx1(c, at), b2, v).event_id
                                              = NormalizeCommit(ctx0, b, up.commits[b][i]).event_id
                /\ \A i \in 1..Len(packages) :
                      \A v \in PackageVariants(packages[i]) :
                          \A c \in ConnIds :
                              NormalizePackage(ctx1(c, "none"), v).event_id
                                  = NormalizePackage(ctx0, packages[i]).event_id
        /\ \A name \in DOMAIN upstream.repos :
              LET up == upstream.repos[name]
                  rows == store \o session[w]
              IN  /\ \A i \in 1..Len(up.pulls) :
                        Cardinality(KeysOfPr(rows, name, up.pulls[i].number)) <= 1
                  /\ \A b \in DOMAIN up.commits :
                        \A i \in 1..Len(up.commits[b]) :
                            Cardinality(KeysOfCommit(rows, name, up.commits[b][i].sha)) <= 1

\* A pass of connection 1 over Org/a has just normalized a pull request, a
\* release and a commit, while the same pull request is already stored for
\* connection 2 and by the standalone connector.
C25_Witness ==
    /\ pc[1] = "commit"
    /\ task[1] = 1
    /\ hist[1].repo = "Org/a"
    /\ HasKey(session[1], 1, pr_event_id("Org/a", 1))
    /\ HasKey(session[1], 1, release_event_id("Org/a", 5))
    /\ HasKey(session[1], 1, commit_event_id("Org/a", "c0ffee"))
    /\ HasKey(store, 2, pr_event_id("Org/a", 1))
    /\ HasKey(store, None, pr_event_id("Org/a", 1))

ImageName(org_name, package_name) ==
    "ghcr.io/" \o Lower(org_name) \o "/" \o package_name

\* C26: no registry image version whose tag list is empty or absent is staged
\* or stored, and every registry row carries at least one tag.
C26_UntaggedNeverStored ==
    /\ \A w \in Workers :
          \A org \in DOMAIN upstream.orgs :
              \A p \in 1..Len(upstream.orgs[org].package_list) :
                  LET package == upstream.orgs[org].package_list[p]
                  IN  \A v \in 1..Len(package.versions) :
                         LET version == package.versions[v]
                             untagged == \/ version.container = <<>>
                                         \/ version.container[1].tags = <<>>
                         IN  untagged =>
                               \A i \in 1..Len(store \o session[w]) :
                                   (store \o session[w])[i].event_id
                                       # registry_event_id(ImageName(org, package.name),
                                                           version.id)
    /\ \A i \in 1..Len(store) :
          "registry" \in DOMAIN store[i].event_metadata =>
              store[i].event_metadata.tags # <<>>

\* A run has stored the tagged version of a package that also has a version
\* with an empty tag list and one without container metadata.
C26_Witness ==
    /\ pc[1] = "done"
    /\ ReturnedCounts(1)
    /\ HasKey(store, task[1], registry_event_id(ImageName("Org", "app"), 1))
    /\ \E v \in 1..Len(upstream.orgs["Org"].package_list[1].versions) :
          upstream.orgs["Org"].package_list[1].versions[v].container = <<>>
    /\ \E v \in 1..Len(upstream.orgs["Org"].package_list[1].versions) :
          /\ upstream.orgs["Org"].package_list[1].versions[v].container # <<>>
          /\ upstream.orgs["Org"].package_list[1].versions[v].container[1].tags = <<>>

\* C27: the stored count returned by a run equals the number of rows the run
\* added to the store.
C27_StoredCountExact ==
    \A w \in Workers :
        (pc[w] = "done" /\ ReturnedCounts(w)) =>
            result[w].result.stored = Len(store) - Len(hist[w].storeBefore)

\* C28: when the same commit is read from two allowlisted branches in the pass
\* over one repository, one row with its (connection_id, event_id) is staged,
\* and never more than one is staged or stored.
C28_SharedCommitOnce ==
    \A w \in Workers :
        task[w] \in ConnIds =>
            \A name \in DOMAIN upstream.repos :
                LET up      == upstream.repos[name]
                    allowed == Range(connections[task[w]].config.branches)
                                   \cap DOMAIN up.commits
                    rows    == store \o session[w]
                IN  \A b1, b2 \in allowed :
                        \A i \in 1..Len(up.commits[b1]) :
                            (b1 # b2 /\ Contains(up.commits[b2], up.commits[b1][i])) =>
                                LET e == commit_event_id(name, up.commits[b1][i].sha)
                                IN  /\ KeyCount(rows, task[w], e) <= 1
                                    /\ (hist[w].repo = name /\ hist[w].kinds.commits >= 2)
                                        => KeyCount(rows, task[w], e) = 1

\* The pass over Org/a has read the same commit from main and from dev and
\* holds one row for it, not yet committed.
C28_Witness ==
    /\ pc[1] = "commit"
    /\ hist[1].repo = "Org/a"
    /\ hist[1].kinds.commits = 2
    /\ connections[task[1]].config.branches = <<"main", "dev">>
    /\ KeyCount(session[1], task[1], commit_event_id("Org/a", "c0ffee")) = 1
    /\ ~HasKey(store, task[1], commit_event_id("Org/a", "c0ffee"))

\* C29: when reading the workflow runs or the registry packages of a
\* repository raises, whatever the class of the exception, the repository is
\* not skipped and the run not aborted, and the pull requests and releases of
\* that repository are staged and then committed.
C29_KindIsolation ==
    \A w \in Workers :
        \A k \in 1..Len(hist[w].tolerated) :
            LET t    == hist[w].tolerated[k]
                c    == task[w]
                up   == upstream.repos[t.repo]
                allowed == Range(connections[c].config.branches)
                rows == IF local[w].idx > t.idx THEN store ELSE store \o session[w]
            IN  t.at \in KindSites =>
                /\ hist[w].escaped = "none"
                /\ ~Contains(hist[w].skipped, t.idx)
                /\ \A i \in 1..Len(up.pulls) :
                      (allowed = {} \/ up.pulls[i].base \in allowed) =>
                          HasKey(rows, c, pr_event_id(t.repo, up.pulls[i].number))
                /\ \A i \in 1..Len(up.releases) :
                      HasKey(rows, c, release_event_id(t.repo, up.releases[i].id))

\* Reading the workflow runs of Org/a raised in a run that completed; the pull
\* request and the release of Org/a, new in this run, are stored.
C29_Witness ==
    /\ pc[1] = "done"
    /\ ReturnedCounts(1)
    /\ \E k \in 1..Len(hist[1].tolerated) :
          /\ hist[1].tolerated[k].at = "get_workflow_runs"
          /\ hist[1].tolerated[k].repo = "Org/a"
    /\ NewInRun(1, pr_event_id("Org/a", 1))
    /\ HasKey(store, task[1], pr_event_id("Org/a", 1))
    /\ HasKey(store, task[1], release_event_id("Org/a", 5))

\* C30: the description of every stored ChangeEvent has a text field, a label
\* list and a related_events list.
C30_DescriptionShape ==
    \A i \in 1..Len(store) :
        {"text", "labels", "related_events"} \subseteq DOMAIN store[i].description

\* C31: the description of every ChangeEvent that is staged or stored has a
\* related_events list, and the list is empty.
C31_RelatedEventsEmpty ==
    \A w \in Workers :
        \A i \in 1..Len(store \o session[w]) :
            /\ "related_events" \in DOMAIN (store \o session[w])[i].description
            /\ (store \o session[w])[i].description.related_events = <<>>

\* A run has completed with rows of all five kinds in the store.
C31_Witness ==
    /\ pc[1] = "done"
    /\ ReturnedCounts(1)
    /\ HasKey(store, task[1], pr_event_id("Org/a", 1))
    /\ HasKey(store, task[1], release_event_id("Org/a", 5))
    /\ HasKey(store, task[1], workflow_event_id("Org/b", 7))
    /\ HasKey(store, task[1], commit_event_id("Org/a", "c0ffee"))
    /\ HasKey(store, task[1], registry_event_id("ghcr.io/org/app", 1))

\* The rows that a step has added to the session of worker w
AddedToSession(w) ==
    SubSeq(session'[w], Len(session[w]) + 1, Len(session'[w]))

\* C32: in every pass over a repository, a detail call (file list, review
\* list, job list, release assets) is made only for an item whose
\* (connection_id, event_id) the session did not see when the pass began;
\* nothing is staged for an item it did see, the stored counter grows by the
\* number of rows staged, and the pass itself stores nothing.
C32_NoEnrichmentForExisting ==
    [][\A w \in Workers :
          (pc[w] = "fetch" /\ hist'[w].visited = hist[w].visited + 1) =>
              LET before == Visible(store, session[w])
              IN  /\ \A k \in 1..Len(hist'[w].calls) :
                        ~HasKey(before, task[w], hist'[w].calls[k].event_id)
                  /\ store' = store
                  /\ pc'[w] = "commit" =>
                        /\ \A i \in 1..Len(AddedToSession(w)) :
                              ~HasKey(before, task[w], AddedToSession(w)[i].event_id)
                        /\ local'[w].total_stored - local[w].total_stored
                              = Len(AddedToSession(w))]_vars

\* A later run has passed over Org/a, whose pull request, release and commit
\* are stored for the connection: the pass counted them as fetched, made no
\* detail call and staged nothing.
C32_Witness ==
    /\ pc[1] = "commit"
    /\ hist[1].repo = "Org/a"
    /\ hist[1].kinds.pulls = 1
    /\ hist[1].kinds.releases = 1
    /\ hist[1].kinds.commits = 2
    /\ HasKey(store, task[1], pr_event_id("Org/a", 1))
    /\ HasKey(store, task[1], release_event_id("Org/a", 5))
    /\ HasKey(store, task[1], commit_event_id("Org/a", "c0ffee"))
    /\ hist[1].calls = <<>>
    /\ session[1] = <<>>
    /\ local[1].total_stored = 0
    /\ local[1].total_fetched > 0

\* C33: after a failure-free run of a connection without a branches allowlist,
\* every pull request, every workflow run and every commit (of every branch)
\* of the repositories it reads is stored for the connection.
C33_NoAllowlistReadsEverything ==
    \A c \in ConnIds :
        (synced[c] /\ connections[c].config.branches = <<>>) =>
            \A name \in ReposRead(c) :
                LET up == upstream.repos[name]
                IN  /\ \A i \in 1..Len(up.pulls) :
                          HasKey(store, c, pr_event_id(name, up.pulls[i].number))
                    /\ \A i \in 1..Len(up.runs) :
                          HasKey(store, c, workflow_event_id(name, up.runs[i].id))
                    /\ \A b \in DOMAIN up.commits :
                          \A i \in 1..Len(up.commits[b]) :
                              HasKey(store, c, commit_event_id(name, up.commits[b][i].sha))

\* C34: when poll_connection starts for a connection that was enabled when
\* the task was enqueued and has been disabled since, its first step ends the
\* task with status skipped: no provider call is made, nothing is staged or
\* stored, and the connection row is not written.
C34_DisabledAfterEnqueue ==
    [][\A w \in Workers :
          (pc[w] = "queued" /\ pc'[w] # "queued" /\ task[w] \in ConnIds
              /\ ~connections[task[w]].enabled) =>
              /\ pc'[w] = "done"
              /\ result'[w].status = "skipped"
              /\ ~hist'[w].netCalls
              /\ ~hist'[w].tested
              /\ hist'[w].visited = 0
              /\ store' = store
              /\ session' = session
              /\ connections' = connections]_vars

\* The task of a connection was enqueued while the connection was enabled (the
\* only way to enqueue it), the connection was disabled before the task ran,
\* and the task has ended skipped with the store as it was.
C34_Witness ==
    /\ pc[1] = "done"
    /\ task[1] \in ConnIds
    /\ changes = 1
    /\ ~connections[task[1]].enabled
    /\ ~hist[1].wasEnabled
    /\ result[1].status = "skipped"
    /\ ~hist[1].netCalls
    /\ store = hist[1].storeBefore

\* The fixed map of conclusion to indicator, and the indicator of every other
\* conclusion
IndicatorMap ==
    [c \in {"success", "failure", "cancelled", "skipped", "timed_out"} |->
        CASE c = "success"   -> "ok"
          [] c = "failure"   -> "x"
          [] c = "cancelled" -> "(x)"
          [] c = "skipped"   -> "(/)"
          [] c = "timed_out" -> "clock"]

FallbackIndicator == "*"

Indicator(conclusion) ==
    IF conclusion \in DOMAIN IndicatorMap THEN IndicatorMap[conclusion]
    ELSE FallbackIndicator

\* The upstream items of repository `name` from which a row with the given
\* key was made
ItemsWithKey(items, key(_), e) ==
    {items[i] : i \in {j \in 1..Len(items) : key(items[j]) = e}}

\* C35: the title of every staged or stored row is its kind tag followed by
\* the summary of the upstream item it was made from; for a workflow run the
\* summary starts with the indicator that the fixed map gives for the run's
\* conclusion, or with the one fallback indicator when the conclusion is not
\* in the map or missing.
C35_TitleShape ==
    \A w \in Workers :
        \A i \in 1..Len(store \o session[w]) :
            LET row  == (store \o session[w])[i]
                md   == row.event_metadata
                name == md.repository
                up   == upstream.repos[name]
                prKey(pr)   == pr_event_id(name, pr.number)
                relKey(rel) == release_event_id(name, rel.id)
                runKey(run) == workflow_event_id(name, run.id)
            IN  CASE "pr_number" \in DOMAIN md ->
                       \E pr \in ItemsWithKey(up.pulls, prKey, row.event_id) :
                           row.title = "[PR] " \o pr.title
                  [] "tag_name" \in DOMAIN md ->
                       \E rel \in ItemsWithKey(up.releases, relKey, row.event_id) :
                           row.title = "[Release] " \o (IF rel.title \in {NULL, ""}
                                                         THEN rel.tag_name
                                                         ELSE rel.title)
                  [] "failed_jobs_count" \in DOMAIN md ->
                       \E run \in ItemsWithKey(up.runs, runKey, row.event_id) :
                           row.title = "[Workflow] " \o Indicator(run.conclusion) \o " "
                                       \o run.name \o " - " \o run.head_branch
                  [] "sha" \in DOMAIN md ->
                       \E b \in DOMAIN up.commits :
                           \E k \in 1..Len(up.commits[b]) :
                               /\ up.commits[b][k].sha = md.sha
                               /\ row.title = "[Commit] " \o Head(up.commits[b][k].message)
                  [] "registry" \in DOMAIN md ->
                       \E tags \in {Take(md.tags, n) : n \in 1..3} :
                           row.title = "[Image] ghcr.io/" \o Lower(up.owner) \o "/"
                                       \o md.package \o ":" \o JoinComma(tags)
                  [] OTHER -> FALSE

\* A run has stored a row of every kind, among them workflow runs of the
\* five mapped conclusions, of two other conclusions and of no conclusion.
C35_Witness ==
    /\ pc[1] = "done"
    /\ ReturnedCounts(1)
    /\ HasKey(store, 1, pr_event_id("Org/r", 1))
    /\ HasKey(store, 1, release_event_id("Org/r", 1))
    /\ HasKey(store, 1, commit_event_id("Org/r", "main1"))
    /\ HasKey(store, 1, registry_event_id("ghcr.io/org/app", 1))
    /\ \A n \in 1..Len(RunConclusions) :
          HasKey(store, 1, workflow_event_id("Org/r", n))
    /\ Len(upstream.repos["Org/r"].runs) = Len(RunConclusions)

\* Sizes an image version could have: unknown, zero, below and above one GB
SizeChoices == {None, 0, 1, 5 * 1024 * 1024, 1024 * 1024 * 1024 + 1024 * 1024}

\* C36: every staged or stored registry row was made from a version whose
\* size is unknown: its description metadata has no size field and its
\* size_bytes is None, not 0.  And whenever a pass has read the packages,
\* normalizing one of them with a size of SizeChoices gives metadata with a
\* (formatted, non-zero-unit) size field exactly when the size is known and
\* greater than 0.
C36_SizeOnlyWhenKnown ==
    \A w \in Workers :
        /\ \A i \in 1..Len(store \o session[w]) :
              LET row == (store \o session[w])[i]
              IN  "registry" \in DOMAIN row.event_metadata =>
                      /\ "size" \notin DOMAIN row.description.metadata
                      /\ row.event_metadata.size_bytes = None
                      /\ row.event_metadata.size_bytes # 0
        /\ pc[w] = "commit" =>
              LET ctx == [c |-> task[w], repo |-> hist[w].repo,
                          branches |-> connections[task[w]].config.branches,
                          committed |-> store, plan |-> NoPlan]
                  packages == fetch_registry_packages(
                                  upstream.orgs, upstream.repos[hist[w].repo].owner, ctx)
              IN  \A k \in 1..Len(packages) :
                      \A n \in SizeChoices :
                          LET row == NormalizePackage(ctx, [packages[k] EXCEPT !.size = n])
                              md  == row.description.metadata
                          IN  /\ "size" \in DOMAIN md <=> (n # None /\ n > 0)
                              /\ "size" \in DOMAIN md =>
                                    md.size.unit = (IF n < 1024 * 1024 * 1024
                                                    THEN "MB" ELSE "GB")
                              /\ row.event_metadata.size_bytes = n

\* A run has stored the image version of the package; its size is not known.
C36_Witness ==
    /\ pc[1] = "done"
    /\ ReturnedCounts(1)
    /\ \E i \in 1..Len(store) :
          /\ store[i].connection_id = task[1]
          /\ store[i].event_id = registry_event_id("ghcr.io/org/app", 1)
          /\ DOMAIN store[i].description.metadata
                = {"registry", "image", "digest_short"}
          /\ store[i].event_metadata.size_bytes = None

\* Kinds, repository (or image) names and upstream identifiers from which
\* keys are built: names with dashes and digits, identifiers that are
\* prefixes of one another
NumberedKinds == {"pr", "release", "workflow", "registry"}

KeyNames == {"Org/a", "Org/a-1", "Org/a-1-1", "Org/pr-Org/a", "ghcr.io/org/a"}

\* Items identified by a number, and commits, identified by a sha
NumberedInputs ==
    {[kind |-> kind, name |-> name, id |-> id] :
        kind \in NumberedKinds, name \in KeyNames, id \in {1, 11, 2}}

CommitInputs ==
    {[kind |-> "commit", name |-> name, id |-> sha] :
        name \in KeyNames, sha \in {"1", "11", "a1"}}

EventIdOf(t) ==
    CASE t.kind = "pr"       -> pr_event_id(t.name, t.id)
      [] t.kind = "release"  -> release_event_id(t.name, t.id)
      [] t.kind = "workflow" -> workflow_event_id(t.name, t.id)
      [] t.kind = "commit"   -> commit_event_id(t.name, t.id)
      [] t.kind = "registry" -> registry_event_id(t.name, t.id)

\* Key and title of every upstream item of repository `name`, as a pass for
\* connection c normalizes them
UpstreamItems(c, name) ==
    LET up  == upstream.repos[name]
        ctx == [c |-> c, repo |-> name, branches |-> connections[c].config.branches,
                committed |-> <<>>, plan |-> NoPlan]
        packages == fetch_registry_packages(upstream.orgs, up.owner, ctx)
        brief(row) == [key |-> row.event_id, title |-> row.title,
                       status |-> row.status]
    IN  {brief(NormalizePR(ctx, up.pulls[i])) : i \in 1..Len(up.pulls)}
        \cup {brief(NormalizeRelease(ctx, up.releases[i])) : i \in 1..Len(up.releases)}
        \cup {brief(NormalizeRun(ctx, up.runs[i])) : i \in 1..Len(up.runs)}
        \cup UNION {{brief(NormalizeCommit(ctx, b, up.commits[b][i])) :
                        i \in 1..Len(up.commits[b])} : b \in DOMAIN up.commits}
        \cup {brief(NormalizePackage(ctx, packages[i])) : i \in 1..Len(packages)}

\* C37: two items that differ in kind, in repository (or image) name or in
\* upstream identifier have different event_ids; and whenever a pass has read
\* a repository, every upstream item of that repository whose event_id is the
\* event_id of a staged or stored row of the connection is the item the row
\* was made from (it has the row's title and status), so no item is taken for
\* the duplicate of another.
C37_InjectiveKey ==
    \A w \in Workers :
        pc[w] = "commit" =>
            /\ \A t1, t2 \in NumberedInputs : EventIdOf(t1) = EventIdOf(t2) => t1 = t2
            /\ \A t1, t2 \in CommitInputs : EventIdOf(t1) = EventIdOf(t2) => t1 = t2
            /\ \A t1 \in NumberedInputs :
                  \A t2 \in CommitInputs : EventIdOf(t1) # EventIdOf(t2)
            /\ \A x, y \in UpstreamItems(task[w], hist[w].repo) :
                  x.key = y.key => x = y
            /\ \A i \in 1..Len(store \o session[w]) :
                  LET row == (store \o session[w])[i]
                  IN  row.connection_id = task[w] =>
                          \A x \in UpstreamItems(task[w], hist[w].repo) :
                              x.key = row.event_id =>
                                  x.title = row.title /\ x.status = row.status

\* A pass has read a repository whose pull request, release, workflow run and
\* image version all have the upstream identifier 1, and has staged a row for
\* each of them.
C37_Witness ==
    /\ pc[1] = "commit"
    /\ hist[1].repo = "Org/r"
    /\ upstream.repos["Org/r"].pulls # <<>>
    /\ upstream.repos["Org/r"].pulls[1].number = 1
    /\ upstream.repos["Org/r"].releases # <<>>
    /\ upstream.repos["Org/r"].releases[1].id = 1
    /\ upstream.repos["Org/r"].runs # <<>>
    /\ upstream.repos["Org/r"].runs[1].id = 1
    /\ HasKey(session[1], 1, pr_event_id("Org/r", 1))
    /\ HasKey(session[1], 1, release_event_id("Org/r", 1))
    /\ HasKey(session[1], 1, workflow_event_id("Org/r", 1))
    /\ HasKey(session[1], 1, registry_event_id("ghcr.io/org/app", 1))
    /\ local[1].total_stored = Len(session[1])
    /\ local[1].total_stored = local[1].total_fetched

\* Keys of the items of the repository about to be read by worker w that pass
\* the branch filter and that the session does not see yet
NewEligibleKeys(w) ==
    LET name == local[w].repos_to_fetch[local[w].idx]
        up   == upstream.repos[name]
        ctx  == [c |-> task[w], repo |-> name,
                 branches |-> connections[task[w]].config.branches,
                 committed |-> Visible(store, session[w]), plan |-> NoPlan]
        packages == fetch_registry_packages(upstream.orgs, up.owner, ctx)
        keys ==
            {pr_event_id(name, up.pulls[i].number) :
                i \in {j \in 1..Len(up.pulls) : ~FilteredOut(ctx, up.pulls[j].base)}}
            \cup {release_event_id(name, up.releases[i].id) : i \in 1..Len(up.releases)}
            \cup {workflow_event_id(name, up.runs[i].id) :
                    i \in {j \in 1..Len(up.runs) :
                              ~FilteredOut(ctx, up.runs[j].head_branch)}}
            \cup UNION {{commit_event_id(name, up.commits[b][i].sha) :
                            i \in 1..Len(up.commits[b])} :
                        b \in Range(ctx.branches) \cap DOMAIN up.commits}
            \cup {registry_event_id(packages[i].name, packages[i].version_id) :
                    i \in 1..Len(packages)}
    IN  {e \in keys : ~HasKey(ctx.committed, task[w], e)}

\* C38: the counters of a run satisfy 0 <= stored <= fetched after every
\* step, and so do the counts it returns; a pass over a repository adds to
\* stored no more than it adds to fetched, and no more than the number of
\* items that pass the branch filter and were not stored before.
C38_StoredAtMostFetched ==
    [][\A w \in Workers :
          /\ 0 <= local'[w].total_stored
          /\ local'[w].total_stored <= local'[w].total_fetched
          /\ (result'[w].status = "success"
                  /\ {"fetched", "stored"} \subseteq DOMAIN result'[w].result) =>
                /\ 0 <= result'[w].result.stored
                /\ result'[w].result.stored <= result'[w].result.fetched
          /\ (pc[w] = "fetch" /\ hist'[w].visited = hist[w].visited + 1) =>
                /\ local'[w].total_stored >= local[w].total_stored
                /\ local'[w].total_stored - local[w].total_stored
                      <= local'[w].total_fetched - local[w].total_fetched
                /\ local'[w].total_stored - local[w].total_stored
                      <= Cardinality(NewEligibleKeys(w))]_vars

\* A run with the allowlist <<"main">> has returned: it fetched pull requests
\* and workflow runs of main and of dev, and stored only those of main.
C38_Witness ==
    /\ pc[1] = "done"
    /\ ReturnedCounts(1)
    /\ connections[1].config.branches = <<"main">>
    /\ hist[1].lastSyncBefore = None
    /\ result[1].result.stored > 0
    /\ result[1].result.stored < result[1].result.fetched
    /\ hist[1].kinds.pulls = 2
    /\ ~HasKey(store, 1, pr_event_id("Org/r", 2))
    /\ HasKey(store, 1, pr_event_id("Org/r", 1))

\* The rows of the session-based path with the connection_id column cleared
WithoutConnection(rows) ==
    [i \in 1..Len(rows) |-> [rows[i] EXCEPT !.connection_id = None]]

\* Both runs read the same repositories and have ended
BothEnded ==
    /\ standalone.pc \in {"returned", "raised"}
    /\ standalone.idx >= 1
    /\ local[1].idx >= 1
    /\ pc[1] \in {"returned", "done"}
    /\ hist[1].accessible = standalone.accessible

\* C39: started from an empty store with no branches allowlist, on the same
\* upstream data, repository list and failing calls, the standalone
\* fetch_and_store_changes and the session-based fetch_with_session store the
\* same events in the same order, equal in every field but connection_id, end
\* the same way, and count and return the same fetched and stored numbers.
C39_SameEventsAndCounts ==
    BothEnded =>
        /\ WithoutConnection(store) = standalone.db
        /\ \A i \in 1..Len(store) : store[i].connection_id = 1
        /\ local[1].total_fetched = standalone.total_fetched
        /\ local[1].total_stored = standalone.total_stored
        /\ (hist[1].escaped # "none") <=> (standalone.pc = "raised")
        /\ standalone.pc = "returned" => local[1].sync_result = standalone.result

\* Both runs have returned after reading the repository that holds every kind
\* of item: each stored the pull request, the release, the eight workflow
\* runs and the image, and no commit.
C39_Witness ==
    /\ BothEnded
    /\ standalone.pc = "returned"
    /\ pc[1] = "done"
    /\ ReturnedCounts(1)
    /\ upstream = EveryKind
    /\ Len(standalone.db) = 11
    /\ Len(store) = 11
    /\ result[1].result.stored = 11
    /\ standalone.result.stored = 11
    /\ standalone.plans = <<NoPlan>>

====
